---- MODULE Spec2Model ----
(***************************************************************************)
(* Meraki -> Pi-hole reconciliation: the upsert primitive of the Pi-hole   *)
(* client (app/clients/pihole_client.py), the reconciliation pass of       *)
(* app/sync_logic.py (sync_pihole_dns), the older pass of                  *)
(* app/meraki_pihole_sync.py (main), the threads in which app/app.py      *)
(* runs a pass, the inventory fetch of app/clients/meraki_client.py, the   *)
(* sync interval (get_sync_interval, POST /update-interval), the loading   *)
(* of the configuration and the scheduled loop of app/sync_runner.py.      *)
(*                                                                         *)
(* Strings are sequences of one-character strings, so that lower(),        *)
(* strip(), replace() and suffix handling are computed, not assumed.       *)
(***************************************************************************)
EXTENDS Integers, Sequences, FiniteSets, TLC

VARIABLES
    variant,            \* which pass implementation runs: "sync_logic" or "main"
    faults,             \* whether requests to the Pi-hole can fail in this behaviour
    passesToRun,        \* how many passes the scheduler starts in this behaviour
    hostname_suffix,    \* config["hostname_suffix"]
    inventory,          \* what get_meraki_data / get_all_relevant_meraki_clients returns
    remote,             \* the custom DNS records held by the Pi-hole: set of [domain, ip]
    cache,              \* existing_pihole_records / existing_records_cache: domain -> list of IPs
    pc,                 \* position of the pass
    pass,               \* number of passes started
    idx,                \* position of the client loop in inventory (1-based)
    sweepTodo,          \* items of the stale sweep not yet visited
    successful_syncs,
    failed_syncs,
    changelog,          \* lines of changelog.log
    previous_mappings,  \* lines read from changelog.log when the pass opened it
    history,            \* lines of /app/history.log
    cacheJson,          \* content of /app/cache.json
    upc,                \* position inside the upsert / remove primitive
    u_domain,           \* domain_cleaned
    u_ip,               \* new_ip_cleaned
    u_copy,             \* list(existing_records_cache[domain_cleaned]) being iterated
    u_k,                \* position of the loop in u_copy (1-based)
    u_ret,              \* return value of the primitive
    ncalls,             \* number of client calls made (direct use of the client)
    calls,              \* log of the HTTP requests sent to the Pi-hole
    lastReq,            \* the last _pihole_api_request: status, attempts, re-authentications
    exc,                \* exception that left the pass, "none" if none
    upserts,            \* log of the add_or_update_dns_record calls made by the client loop
    threads,            \* the threads started by the web application, in order of start
    f_pc,               \* position of get_all_relevant_meraki_clients
    specified_network_ids,  \* config["meraki_network_ids"]
    org_networks,       \* what getOrganizationNetworks answered: "APIError" or the list of network ids
    networks_to_query,  \* the networks the per-network loop visits, in order
    f_idx,              \* position of the per-network loop (1-based)
    queried,            \* log of the loop's iterations: network, DHCP answer, client listing
    meraki_calls,       \* log of the requests sent to the Meraki dashboard
    all_clients_map,    \* the dict client id -> record, in insertion order
    f_result,           \* the list the fetch returned
    interval_file,      \* /app/sync_interval.txt: absent, unreadable, or present with a content
    env_interval,       \* SYNC_INTERVAL_SECONDS: unset, or set to a string
    sync_interval,      \* what get_sync_interval returned last
    http_status,        \* status of the last POST /update-interval, 0 if none
    request,            \* the "interval" field of the last POST /update-interval
    last_op,            \* the last operation on the interval: "none", "post", "get"
    nreq,               \* number of operations on the interval so far
    s_pc,               \* position of the scheduled loop run_sync
    s_entry,            \* how a pass is driven: "run_sync" or "script"
    environ,            \* the mandatory environment variables
    s_outcome,          \* how the last pass ended
    s_called,           \* whether the last pass called the dashboard or the Pi-hole
    s_exit,             \* "running", or the exit status of the process
    sync_log,           \* /app/logs/sync.log: whether its directory and the file exist, its size
    allowed_subnets,    \* ALLOWED_SUBNETS: unset, or set to a string
    x_forwarded_for,    \* the X-Forwarded-For header of the last request: absent, or a string
    peer,               \* request.client.host of the last request
    handler_called,     \* whether the last request reached its route handler
    l_response,         \* the answer the last listing request to the Pi-hole got
    l_result            \* how the last listing ended: "map", "None", or the exception raised

vars == <<variant, faults, passesToRun, hostname_suffix, inventory, remote, cache, pc, pass, idx, sweepTodo,
          successful_syncs, failed_syncs, changelog, previous_mappings, history, cacheJson,
          upc, u_domain, u_ip, u_copy, u_k, u_ret, ncalls, calls, lastReq, exc, upserts,
          threads, f_pc, specified_network_ids, org_networks, networks_to_query, f_idx, queried,
          meraki_calls, all_clients_map, f_result, interval_file, env_interval, sync_interval,
          http_status, request, last_op, nreq, s_pc, s_entry, environ, s_outcome, s_called, s_exit,
          sync_log, allowed_subnets, x_forwarded_for, peer, handler_called, l_response, l_result>>

passVars == <<pc, pass, idx, sweepTodo, successful_syncs, failed_syncs, changelog,
              previous_mappings, history, cacheJson, upserts>>

upsertVars == <<upc, u_domain, u_ip, u_copy, u_k, u_ret>>

envVars == <<variant, faults, passesToRun, hostname_suffix, inventory>>

fetchVars == <<f_pc, specified_network_ids, org_networks, networks_to_query, f_idx, queried,
               meraki_calls, all_clients_map, f_result>>

intervalVars == <<interval_file, env_interval, sync_interval, http_status, request, last_op, nreq>>

loopVars == <<s_pc, s_entry, environ, s_outcome, s_called, s_exit>>

webVars == <<sync_log, allowed_subnets, x_forwarded_for, peer, handler_called>>

listVars == <<l_response, l_result>>

sideVars == <<fetchVars, intervalVars, loopVars, webVars, listVars>>

appVars == <<threads, sideVars>>

----------------------------------------------------------------------------
(* Bounds *)

MaxClients == 2     \* longest inventory list
MaxPasses == 2      \* passes run in one behaviour
MaxCalls == 2       \* client calls made in one behaviour of the client-level specification
MaxThreads == 3     \* threads the web application starts in one behaviour

----------------------------------------------------------------------------
(* Strings *)

\* str.lower() on the alphabet used
LowerChar(c) ==
    CASE c = "A" -> "a"
      [] c = "L" -> "l"
      [] c = "Z" -> "z"
      [] OTHER -> c

RECURSIVE Lower(_)
Lower(s) == IF s = <<>> THEN <<>> ELSE <<LowerChar(Head(s))>> \o Lower(Tail(s))

IsSpace(c) == c = " "

RECURSIVE LStrip(_)
LStrip(s) == IF s # <<>> /\ IsSpace(Head(s)) THEN LStrip(Tail(s)) ELSE s

RECURSIVE RStrip(_)
RStrip(s) == IF s # <<>> /\ IsSpace(s[Len(s)]) THEN RStrip(SubSeq(s, 1, Len(s) - 1)) ELSE s

\* str.strip()
Strip(s) == RStrip(LStrip(s))

\* str.replace(" ", "-")
RECURSIVE ReplaceSpaces(_)
ReplaceSpaces(s) ==
    IF s = <<>> THEN <<>>
    ELSE <<IF Head(s) = " " THEN "-" ELSE Head(s)>> \o ReplaceSpaces(Tail(s))

\* str.replace(sub, ""): every non-overlapping occurrence, left to right
RECURSIVE RemoveAll(_, _)
RemoveAll(s, sub) ==
    IF sub = <<>> \/ Len(s) < Len(sub) THEN s
    ELSE IF SubSeq(s, 1, Len(sub)) = sub
         THEN RemoveAll(SubSeq(s, Len(sub) + 1, Len(s)), sub)
         ELSE <<Head(s)>> \o RemoveAll(Tail(s), sub)

\* c in s
Contains(s, c) == \E k \in 1..Len(s) : s[k] = c

\* str.endswith
EndsWith(s, suf) ==
    /\ Len(suf) <= Len(s)
    /\ SubSeq(s, Len(s) - Len(suf) + 1, Len(s)) = suf

\* x in lst
InList(lst, x) == \E k \in 1..Len(lst) : lst[k] = x

\* lst.remove(x): drops the first occurrence
RECURSIVE RemoveFirst(_, _)
RemoveFirst(lst, x) ==
    IF lst = <<>> THEN <<>>
    ELSE IF Head(lst) = x THEN Tail(lst)
         ELSE <<Head(lst)>> \o RemoveFirst(Tail(lst), x)

SeqToSet(lst) == {lst[k] : k \in 1..Len(lst)}

----------------------------------------------------------------------------
(* Input domains *)

IPs == {<<"1">>, <<"2">>}

Suffixes == {<<".", "l">>}

\* client names: plain, needing lower() and replace(), missing, and carrying ':'
Names == {<<"a">>, <<"A", " ", "z">>, <<>>, <<"a", ":">>}

Clients == [name : Names, ip : IPs]

Inventories == UNION {[1..n -> Clients] : n \in 0..MaxClients}

\* hostnames the Pi-hole may hold before the first pass: one that an inventory
\* name derives, one stale hostname carrying the suffix, one foreign hostname
StoreDomains == {<<"a", ".", "l">>, <<"z", ".", "l">>, <<"z", ".", "e">>}

Pairs(doms) == [domain : doms, ip : IPs]

\* one IP per hostname
SingleIp(S) == \A r1 \in S, r2 \in S : r1.domain = r2.domain => r1.ip = r2.ip

\* the answers a request to the Pi-hole can get
AllResponses == {[status |-> 200, success |-> TRUE],
                 [status |-> 200, success |-> FALSE],
                 [status |-> 403, success |-> FALSE],
                 [status |-> 500, success |-> FALSE]}

\* the answers a request can get in this behaviour
Responses == IF faults THEN AllResponses ELSE {[status |-> 200, success |-> TRUE]}

----------------------------------------------------------------------------
(* The records cache: a dict domain -> list of IPs *)

EmptyCache == [d \in {} |-> <<>>]

CachePut(c, d, ips) == [x \in (DOMAIN c) \cup {d} |-> IF x = d THEN ips ELSE c[x]]

CacheDel(c, d) == [x \in (DOMAIN c) \ {d} |-> c[x]]

CacheIps(c, d) == IF d \in DOMAIN c THEN SeqToSet(c[d]) ELSE {}

RemoteIps(S, d) == {r.ip : r \in {x \in S : x.domain = d}}

----------------------------------------------------------------------------
(* HTTP layer of the Pi-hole client *)

\* _pihole_api_request: one requests.get; raise_for_status turns every 4xx/5xx
\* answer into the None result, a 200 answer yields its JSON body
pihole_api_request(resp) ==
    IF resp.status = 200
    THEN [none |-> FALSE, success |-> resp.success]
    ELSE [none |-> TRUE, success |-> FALSE]

\* what the request did on the wire: requests sent and re-authentications made
RequestTrace(resp) == [status |-> resp.status, attempts |-> 1, auths |-> 0]

\* an add that reports failure whatever the Pi-hole answered
add_never_confirmed(resp) == FALSE

\* add_dns_record_to_pihole: true iff the response exists and reports success
add_dns_record_to_pihole(resp) ==
    LET response == pihole_api_request(resp)
    IN  ~response.none /\ response.success

\* a delete that takes any response at all for a success
delete_ignoring_success(resp) == ~pihole_api_request(resp).none

\* delete_dns_record_from_pihole: true iff the response exists and reports success
delete_dns_record_from_pihole(resp) ==
    LET response == pihole_api_request(resp)
    IN  ~response.none /\ response.success

\* the Pi-hole carried the request out: it answered 200 and reported success
ServerApplied(resp) == resp.status = 200 /\ resp.success

CallEntry(op, d, ip, ok) == [op |-> op, domain |-> d, ip |-> ip, ok |-> ok, pass |-> pass]

\* all orders in which the Pi-hole may list the records it holds
Listings(S) ==
    {f \in [1..Cardinality(S) -> S] : \A i, j \in 1..Cardinality(S) : f[i] = f[j] => i = j}

\* get_pihole_custom_dns_records, the loop over response_data["data"]
RECURSIVE BuildRecords(_, _)
BuildRecords(data, records) ==
    IF data = <<>> THEN records
    ELSE LET domain_cleaned == Lower(Strip(Head(data).domain))
             ip_address == Strip(Head(data).ip)
             old == IF domain_cleaned \in DOMAIN records THEN records[domain_cleaned] ELSE <<>>
         IN  BuildRecords(Tail(data), CachePut(records, domain_cleaned, Append(old, ip_address)))

\* a deletion that is not applied to the cache
CacheAfterDeleteStale(c, d, old_ip) == c

\* the cache after a confirmed deletion of old_ip (pihole_client.py lines 176-179)
CacheAfterDelete(c, d, old_ip) ==
    LET c1 == IF InList(c[d], old_ip) THEN CachePut(c, d, RemoveFirst(c[d], old_ip)) ELSE c
    IN  IF c1[d] = <<>> THEN CacheDel(c1, d) ELSE c1

\* the cache after a confirmed addition of new_ip (pihole_client.py lines 189-192)
CacheAfterAdd(c, d, new_ip) ==
    LET c1 == IF d \notin DOMAIN c THEN CachePut(c, d, <<>>) ELSE c
    IN  IF ~InList(c1[d], new_ip) THEN CachePut(c1, d, Append(c1[d], new_ip)) ELSE c1

----------------------------------------------------------------------------
(* The upsert primitive: add_or_update_dns_record_in_pihole *)

\* an exact-pair check that never finds the pair
PairNeverExists(c, d, ip) == FALSE

\* the exact domain-ip pair is already in the cache (line 161)
PairExists(c, d, ip) == d \in DOMAIN c /\ InList(c[d], ip)

\* entry of the primitive up to the first remote call (lines 149-170)
add_or_update_dns_record_in_pihole(domain, new_ip) ==
    LET domain_cleaned == Lower(Strip(domain))
        new_ip_cleaned == Strip(new_ip)
    IN  /\ u_domain' = domain_cleaned
        /\ u_ip' = new_ip_cleaned
        /\ u_k' = 1
        /\ IF domain_cleaned = <<>> \/ new_ip_cleaned = <<>>
           THEN /\ u_ret' = FALSE
                /\ upc' = "returned"
                /\ u_copy' = <<>>
           ELSE IF PairExists(cache, domain_cleaned, new_ip_cleaned)
           THEN /\ u_ret' = TRUE
                /\ upc' = "returned"
                /\ u_copy' = <<>>
           ELSE IF domain_cleaned \in DOMAIN cache
           THEN /\ u_ret' = u_ret
                /\ upc' = "delete"
                /\ u_copy' = cache[domain_cleaned]
           ELSE /\ u_ret' = u_ret
                /\ upc' = "add"
                /\ u_copy' = <<>>
        /\ UNCHANGED <<remote, cache, calls, lastReq>>

\* a failed delete after which the loop goes on to its next step
CarryOnAfterFailedDelete(more) == more

\* where the primitive stands after a failed delete: it has returned
\* (pihole_client.py lines 180-184, "Halting update")
AfterFailedDelete(more) == "returned"

\* one iteration of the loop over the old IPs (lines 170-184)
DeleteOldIp ==
    /\ upc = "delete"
    /\ u_k <= Len(u_copy)
    /\ LET old_ip == u_copy[u_k]
           more == IF u_k = Len(u_copy) THEN "add" ELSE "delete"
       IN  IF old_ip = u_ip
           THEN /\ upc' = more
                /\ u_k' = u_k + 1
                /\ UNCHANGED <<remote, cache, calls, lastReq, u_ret, exc, pc>>
           ELSE \E resp \in Responses :
                  LET ok == delete_dns_record_from_pihole(resp)
                  IN  /\ calls' = Append(calls, CallEntry("delete", u_domain, old_ip, ok))
                      /\ lastReq' = RequestTrace(resp)
                      /\ remote' = IF ServerApplied(resp)
                                   THEN remote \ {[domain |-> u_domain, ip |-> old_ip]}
                                   ELSE remote
                      /\ IF ok
                         THEN IF u_domain \in DOMAIN cache
                              THEN /\ cache' = CacheAfterDelete(cache, u_domain, old_ip)
                                   /\ upc' = more
                                   /\ u_k' = u_k + 1
                                   /\ UNCHANGED <<u_ret, exc, pc>>
                              ELSE /\ exc' = "KeyError"
                                   /\ pc' = "crashed"
                                   /\ upc' = "none"
                                   /\ UNCHANGED <<cache, u_k, u_ret>>
                         ELSE /\ u_ret' = FALSE
                              /\ upc' = AfterFailedDelete(more)
                              /\ UNCHANGED <<cache, u_k, exc, pc>>
    /\ UNCHANGED <<envVars, appVars, upserts, pass, idx, sweepTodo, successful_syncs, failed_syncs,
                   changelog, previous_mappings, history, cacheJson, u_domain, u_ip, u_copy,
                   ncalls>>

\* the add of the new record (lines 186-194); in meraki_pihole_sync.py the add
\* function reads `response` without ever assigning it (lines 407-412)
AddNewRecord ==
    /\ upc = "add"
    /\ IF variant = "main"
       THEN /\ exc' = "NameError"
            /\ pc' = "crashed"
            /\ upc' = "none"
            /\ UNCHANGED <<remote, cache, calls, lastReq, u_ret>>
       ELSE \E resp \in Responses :
              LET ok == add_dns_record_to_pihole(resp)
              IN  /\ calls' = Append(calls, CallEntry("add", u_domain, u_ip, ok))
                  /\ lastReq' = RequestTrace(resp)
                  /\ u_ret' = ok
                  /\ upc' = "returned"
                  /\ remote' = IF ServerApplied(resp)
                               THEN remote \cup {[domain |-> u_domain, ip |-> u_ip]}
                               ELSE remote
                  /\ cache' = IF ok THEN CacheAfterAdd(cache, u_domain, u_ip) ELSE cache
                  /\ UNCHANGED <<exc, pc>>
    /\ UNCHANGED <<envVars, appVars, upserts, pass, idx, sweepTodo, successful_syncs, failed_syncs,
                   changelog, previous_mappings, history, cacheJson, u_domain, u_ip, u_copy,
                   u_k, ncalls>>

\* PiholeClient.remove_dns_record: one delete request; a confirmed deletion
\* is applied to the records cache, a failed one leaves it alone
remove_dns_record(domain, ip, resp) ==
    LET ok == delete_dns_record_from_pihole(resp)
    IN  /\ calls' = Append(calls, CallEntry("delete", domain, ip, ok))
        /\ lastReq' = RequestTrace(resp)
        /\ u_ret' = ok
        /\ remote' = IF ServerApplied(resp)
                     THEN remote \ {[domain |-> domain, ip |-> ip]}
                     ELSE remote
        /\ cache' = IF ok /\ domain \in DOMAIN cache
                    THEN CacheAfterDelete(cache, domain, ip)
                    ELSE cache

----------------------------------------------------------------------------
(* Direct use of the client: a listing followed by upsert and remove calls *)

CallDomains == {<<"a", ".", "l">>, <<"A", ".", "l">>, <<"z", ".", "l">>, <<>>}

CallIPs == IPs \cup {<<>>}

ClientStoreDomains == {<<"a", ".", "l">>, <<"z", ".", "l">>}

CallUpsert ==
    /\ pc = "client"
    /\ upc \in {"none", "returned", "removed"}
    /\ ncalls < MaxCalls
    /\ ncalls' = ncalls + 1
    /\ \E domain \in CallDomains, new_ip \in CallIPs :
          add_or_update_dns_record_in_pihole(domain, new_ip)
    /\ UNCHANGED <<envVars, appVars, passVars, exc>>

CallRemove ==
    /\ pc = "client"
    /\ upc \in {"none", "returned", "removed"}
    /\ ncalls < MaxCalls
    /\ ncalls' = ncalls + 1
    /\ \E r \in Pairs(ClientStoreDomains), resp \in Responses :
          /\ remove_dns_record(r.domain, r.ip, resp)
          /\ u_domain' = r.domain
          /\ u_ip' = r.ip
    /\ upc' = "removed"
    /\ u_copy' = <<>>
    /\ u_k' = 1
    /\ UNCHANGED <<envVars, appVars, passVars, exc>>

\* the fetch before it is called
FetchIdle ==
    /\ f_pc = "idle"
    /\ specified_network_ids = <<>>
    /\ org_networks = [error |-> FALSE, ids |-> <<>>]
    /\ networks_to_query = <<>>
    /\ f_idx = 1
    /\ queried = <<>>
    /\ meraki_calls = <<>>
    /\ all_clients_map = <<>>
    /\ f_result = <<>>

\* no interval file, no interval in the environment, nothing read or posted
IntervalIdle ==
    /\ interval_file = [state |-> "absent", content |-> <<>>]
    /\ env_interval = [set |-> FALSE, value |-> <<>>]
    /\ sync_interval = 300
    /\ http_status = 0
    /\ request = [kind |-> "none", n |-> 0, s |-> <<>>]
    /\ last_op = "none"
    /\ nreq = 0

\* the scheduled loop before it is started
LoopIdle ==
    /\ s_pc = "idle"
    /\ s_entry = "run_sync"
    /\ environ = [MERAKI_API_KEY |-> "k", MERAKI_ORG_ID |-> "L_1", PIHOLE_API_URL |-> "http://pi/admin",
                  PIHOLE_API_KEY |-> "k", HOSTNAME_SUFFIX |-> ".l"]
    /\ s_outcome = "none"
    /\ s_called = FALSE
    /\ s_exit = "running"

\* the web application before any request for the log or through the allowlist
WebIdle ==
    /\ sync_log = [dir |-> TRUE, exists |-> FALSE, size |-> 0]
    /\ allowed_subnets = [set |-> FALSE, value |-> <<>>]
    /\ x_forwarded_for = [set |-> FALSE, value |-> <<>>]
    /\ peer = <<>>
    /\ handler_called = FALSE

\* the Pi-hole client before any listing on its own
ListIdle ==
    /\ l_response = [status |-> 0, shape |-> "none", items |-> <<>>]
    /\ l_result = "none"

InitCore ==
    /\ pass = 0
    /\ idx = 0
    /\ sweepTodo = {}
    /\ successful_syncs = 0
    /\ failed_syncs = 0
    /\ previous_mappings = <<>>
    /\ cacheJson = <<>>
    /\ upc = "none"
    /\ u_domain = <<>>
    /\ u_ip = <<>>
    /\ u_copy = <<>>
    /\ u_k = 1
    /\ u_ret = FALSE
    /\ ncalls = 0
    /\ calls = <<>>
    /\ lastReq = [status |-> 0, attempts |-> 0, auths |-> 0]
    /\ exc = "none"
    /\ upserts = <<>>
    /\ threads = <<>>

InitCommon == InitCore /\ FetchIdle /\ IntervalIdle /\ LoopIdle /\ WebIdle /\ ListIdle

\* the client right after a successful listing of an arbitrary store
InitUpsert ==
    /\ InitCommon
    /\ variant = "sync_logic"
    /\ faults = TRUE
    /\ passesToRun = 0
    /\ changelog = <<>>
    /\ history = <<>>
    /\ hostname_suffix \in Suffixes
    /\ inventory = <<>>
    /\ pc = "client"
    /\ remote \in SUBSET Pairs(ClientStoreDomains)
    /\ \E data \in Listings(remote) : cache = BuildRecords(data, EmptyCache)

NextUpsert == CallUpsert \/ CallRemove \/ DeleteOldIp \/ AddNewRecord

SpecUpsert == InitUpsert /\ [][NextUpsert]_vars

----------------------------------------------------------------------------
(* The reconciliation pass: sync_pihole_dns (sync_logic.py) and main           *)
(* (meraki_pihole_sync.py)                                                     *)

\* client_name.replace(" ", "-").lower()
Sanitize(name) == Lower(ReplaceSpaces(name))

\* f"{client_name_sanitized}{config['hostname_suffix']}"
DomainToSync(client) == Sanitize(client.name) \o hostname_suffix

\* keys of meraki_clients_by_ip
meraki_clients_by_ip == {inventory[k].ip : k \in 1..Len(inventory)}

\* keys of meraki_clients_by_name
meraki_clients_by_name ==
    {Sanitize(inventory[k].name) : k \in {j \in 1..Len(inventory) : inventory[j].name # <<>>}}

\* existing_pihole_records.items()
SweepItems(c) == UNION {{[domain |-> d, ip |-> c[d][k]] : k \in 1..Len(c[d])} : d \in DOMAIN c}

\* one add_or_update_dns_record call of the client loop: the client it was made
\* for, the hostname handed over, and the value returned once it has returned
UpsertEntry(client, d) ==
    [pass |-> pass, name |-> client.name, domain |-> d, ip |-> client.ip, ret |-> "pending"]

LogLine(action, d, ip) == [ts |-> pass, action |-> action, domain |-> d, ip |-> ip]

\* a pass that goes to the store whatever the inventory holds
ProceedAlways == TRUE

\* `(update_type is None or update_type == "pihole") and meraki_clients` for a
\* scheduled pass (sync_logic.py 177); `if not meraki_clients: return`
\* (meraki_pihole_sync.py 527-542)
ProceedToStore == inventory # <<>>

\* loading the configuration and fetching the inventory; an empty inventory
\* ends the pass (sync_logic.py 175-177, meraki_pihole_sync.py 499-542)
StartPass ==
    /\ pc \in {"idle", "done", "crashed"}
    /\ pass < passesToRun
    /\ pass' = pass + 1
    /\ exc' = "none"
    /\ pc' = IF ProceedToStore THEN "list" ELSE "done"
    /\ UNCHANGED <<envVars, appVars, upserts, remote, cache, idx, sweepTodo, successful_syncs, failed_syncs,
                   changelog, previous_mappings, history, cacheJson, upsertVars, ncalls,
                   calls, lastReq>>

\* listing the store's records; None ends the pass, anything else opens the
\* changelog and enters the client loop (sync_logic.py 178-195,
\* meraki_pihole_sync.py 548-555)
FetchRecords ==
    /\ pc = "list"
    /\ \E resp \in Responses :
         LET response_data == pihole_api_request(resp)
         IN  /\ calls' = Append(calls, CallEntry("get", <<>>, <<>>, ~response_data.none))
             /\ lastReq' = RequestTrace(resp)
             /\ IF response_data.none
                THEN /\ pc' = "done"
                     /\ UNCHANGED <<cache, idx, successful_syncs, failed_syncs, changelog,
                                    previous_mappings>>
                ELSE /\ IF response_data.success
                        THEN \E data \in Listings(remote) : cache' = BuildRecords(data, EmptyCache)
                        ELSE cache' = EmptyCache
                     /\ pc' = "loop"
                     /\ idx' = 1
                     /\ successful_syncs' = 0
                     /\ failed_syncs' = 0
                     /\ IF variant = "sync_logic"
                        THEN /\ previous_mappings' = changelog
                             /\ changelog' = <<>>
                        ELSE UNCHANGED <<changelog, previous_mappings>>
    /\ UNCHANGED <<envVars, appVars, upserts, remote, pass, sweepTodo, history, cacheJson, upsertVars, ncalls,
                   exc>>

\* one client of the loop up to the upsert call (sync_logic.py 197-211,
\* meraki_pihole_sync.py 557-568)
ProcessClient ==
    /\ pc = "loop"
    /\ upc = "none"
    /\ idx <= Len(inventory)
    /\ LET client == inventory[idx]
       IN  IF variant = "sync_logic" /\ (client.name = <<>> \/ Contains(client.name, ":"))
           THEN /\ idx' = idx + 1
                /\ UNCHANGED <<remote, cache, calls, lastReq, upsertVars, upserts>>
           ELSE /\ add_or_update_dns_record_in_pihole(DomainToSync(client), client.ip)
                /\ upserts' = Append(upserts, UpsertEntry(client, DomainToSync(client)))
                /\ idx' = idx
    /\ UNCHANGED <<envVars, appVars, pc, pass, sweepTodo, successful_syncs, failed_syncs, changelog,
                   previous_mappings, history, cacheJson, ncalls, exc>>

\* what the loop does with the upsert's return value (sync_logic.py 211-224,
\* meraki_pihole_sync.py 568-572)
RecordSyncResult ==
    /\ pc = "loop"
    /\ upc = "returned"
    /\ LET client == inventory[idx]
           mapping_line == LogLine("Mapped", DomainToSync(client), client.ip)
       IN  IF u_ret
           THEN /\ successful_syncs' = successful_syncs + 1
                /\ failed_syncs' = failed_syncs
                /\ changelog' = IF variant = "sync_logic" /\ ~InList(previous_mappings, mapping_line)
                                THEN Append(changelog, mapping_line)
                                ELSE changelog
           ELSE /\ failed_syncs' = failed_syncs + 1
                /\ successful_syncs' = successful_syncs
                /\ changelog' = changelog
    /\ upserts' = [upserts EXCEPT ![Len(upserts)].ret = IF u_ret THEN "true" ELSE "false"]
    /\ idx' = idx + 1
    /\ upc' = "none"
    /\ UNCHANGED <<envVars, appVars, remote, cache, pc, pass, sweepTodo, previous_mappings, history,
                   cacheJson, u_domain, u_ip, u_copy, u_k, u_ret, ncalls, calls, lastReq, exc>>

\* the loop left after its first client
LoopOverAfterFirst == idx > 1

\* `for client in meraki_clients` has visited every client
LoopOver == idx > Len(inventory)

\* the client loop is exhausted: sync_logic.py goes on to the stale sweep,
\* meraki_pihole_sync.py logs its summary and returns
EndLoop ==
    /\ pc = "loop"
    /\ upc = "none"
    /\ LoopOver
    /\ IF variant = "sync_logic"
       THEN /\ pc' = "sweep"
            /\ sweepTodo' = SweepItems(cache)
       ELSE /\ pc' = "done"
            /\ sweepTodo' = sweepTodo
    /\ UNCHANGED <<envVars, appVars, upserts, remote, cache, pass, idx, successful_syncs, failed_syncs,
                   changelog, previous_mappings, history, cacheJson, upsertVars, ncalls,
                   calls, lastReq, exc>>

\* one record of the stale sweep (sync_logic.py 226-233)
SweepRecord ==
    /\ pc = "sweep"
    /\ \E item \in sweepTodo :
         LET pihole_hostname == RemoveAll(item.domain, hostname_suffix)
         IN  /\ sweepTodo' = sweepTodo \ {item}
             /\ IF item.ip \notin meraki_clients_by_ip /\ pihole_hostname \notin meraki_clients_by_name
                THEN \E resp \in Responses :
                       /\ remove_dns_record(item.domain, item.ip, resp)
                       /\ changelog' = IF delete_dns_record_from_pihole(resp)
                                       THEN Append(changelog, LogLine("Removed", item.domain, item.ip))
                                       ELSE changelog
                ELSE UNCHANGED <<remote, cache, calls, lastReq, u_ret, changelog>>
    /\ UNCHANGED <<envVars, appVars, upserts, pc, pass, idx, successful_syncs, failed_syncs, previous_mappings,
                   history, cacheJson, upc, u_domain, u_ip, u_copy, u_k, ncalls, exc>>

\* a count of every named client, in the store or not
MappedNamedClients ==
    Cardinality({k \in 1..Len(inventory) : inventory[k].name # <<>>})

\* number of named clients whose domain is a key of existing_pihole_records
\* (sync_logic.py 242-253)
MappedDevices ==
    Cardinality({k \in 1..Len(inventory) :
                    /\ inventory[k].name # <<>>
                    /\ DomainToSync(inventory[k]) \in DOMAIN cache})

\* summary, history sample and cache.json (sync_logic.py 235-264)
FinishPass ==
    /\ pc = "sweep"
    /\ sweepTodo = {}
    /\ history' = Append(history, [ts |-> pass, mapped |-> MappedDevices])
    /\ cacheJson' = <<[pihole |-> cache, mapped |-> MappedDevices]>>
    /\ pc' = "done"
    /\ UNCHANGED <<envVars, appVars, upserts, remote, cache, pass, idx, sweepTodo, successful_syncs,
                   failed_syncs, changelog, previous_mappings, upsertVars, ncalls, calls,
                   lastReq, exc>>

\* the inventories each implementation can be handed: the fetch of
\* meraki_pihole_sync.py only returns clients with a name (line 314)
InventoriesOf(v) ==
    IF v = "sync_logic" THEN Inventories
    ELSE {inv \in Inventories : \A k \in 1..Len(inv) : inv[k].name # <<>>}

InitPass ==
    /\ variant \in {"sync_logic", "main"}
    /\ hostname_suffix \in Suffixes
    /\ inventory \in InventoriesOf(variant)
    /\ pc = "idle"
    /\ remote \in {S \in SUBSET Pairs(StoreDomains) : SingleIp(S)}
    /\ cache = EmptyCache

\* what changelog.log and history.log hold before the pass: nothing, or the
\* output of an earlier run
PriorChangelogs ==
    {<<>>, <<[ts |-> 0, action |-> "Mapped", domain |-> <<"a", ".", "l">>, ip |-> <<"1">>]>>}

PriorHistory == <<[ts |-> 0, mapped |-> 1]>>

\* one pass against a Pi-hole whose answers may be failures
Init ==
    /\ InitCommon
    /\ InitPass
    /\ faults = TRUE
    /\ passesToRun = 1
    /\ changelog \in PriorChangelogs
    /\ history = IF changelog = <<>> THEN <<>> ELSE PriorHistory

\* passes in succession against a Pi-hole that answers every request
InitTwice ==
    /\ InitCommon
    /\ InitPass
    /\ faults = FALSE
    /\ passesToRun = MaxPasses
    /\ changelog = <<>>
    /\ history = <<>>

Next ==
    \/ StartPass
    \/ FetchRecords
    \/ ProcessClient
    \/ DeleteOldIp
    \/ AddNewRecord
    \/ RecordSyncResult
    \/ EndLoop
    \/ SweepRecord
    \/ FinishPass

Spec == Init /\ [][Next]_vars

SpecTwice == InitTwice /\ [][Next]_vars

\* client names that differ only in case, and a name that is already a full
\* host name under the configured suffix
NamesWide == {<<"a">>, <<"A">>, <<"a", ".", "l">>}

InventoriesWide == UNION {[1..n -> [name : NamesWide, ip : IPs]] : n \in 0..MaxClients}

\* the hostnames these names derive
StoreDomainsWide == {<<"a", ".", "l">>, <<"a", ".", "l", ".", "l">>}

\* one pass of sync_pihole_dns over such names, against a Pi-hole whose
\* answers may be failures
InitNames ==
    /\ InitCommon
    /\ variant = "sync_logic"
    /\ hostname_suffix \in Suffixes
    /\ inventory \in InventoriesWide
    /\ pc = "idle"
    /\ remote \in {S \in SUBSET Pairs(StoreDomainsWide) : SingleIp(S)}
    /\ cache = EmptyCache
    /\ faults = TRUE
    /\ passesToRun = 1
    /\ changelog = <<>>
    /\ history = <<>>

SpecNames == InitNames /\ [][Next]_vars

\* one pass of sync_pihole_dns against an empty Pi-hole that answers every
\* request
InitRoundTrip ==
    /\ InitCommon
    /\ variant = "sync_logic"
    /\ hostname_suffix \in Suffixes
    /\ inventory \in Inventories \cup InventoriesWide
    /\ pc = "idle"
    /\ remote = {}
    /\ cache = EmptyCache
    /\ faults = FALSE
    /\ passesToRun = 1
    /\ changelog = <<>>
    /\ history = <<>>

SpecRoundTrip == InitRoundTrip /\ [][Next]_vars

\* one pass of sync_pihole_dns with HOSTNAME_SUFFIX written in lower case or
\* with an upper-case letter, against a Pi-hole whose answers may be failures
InitCase ==
    /\ InitCommon
    /\ variant = "sync_logic"
    /\ hostname_suffix \in Suffixes \cup {<<".", "L">>}
    /\ inventory \in Inventories
    /\ pc = "idle"
    /\ remote \in {S \in SUBSET Pairs(ClientStoreDomains) : SingleIp(S)}
    /\ cache = EmptyCache
    /\ faults = TRUE
    /\ passesToRun = 1
    /\ changelog = <<>>
    /\ history = <<>>

SpecCase == InitCase /\ [][Next]_vars

----------------------------------------------------------------------------
(* The web application: the threads that run a pass (app.py)                   *)

\* a thread as threading.Thread(target=run_sync_main, args=...) creates it and
\* start() sets it going
NewThread(update_type) == [update_type |-> update_type, at |-> "started"]

\* lifespan: the application starts one thread that runs a pass without
\* argument (app.py 36-44)
lifespan ==
    /\ pc = "app"
    /\ threads = <<>>
    /\ threads' = Append(threads, NewThread("None"))
    /\ UNCHANGED <<envVars, passVars, upsertVars, sideVars, remote, cache, ncalls, calls, lastReq, exc>>

\* POST /update-meraki: a new thread runs the pass with "meraki", whatever
\* the other threads are doing (app.py 78-90)
update_meraki ==
    /\ pc = "app"
    /\ threads # <<>>
    /\ Len(threads) < MaxThreads
    /\ threads' = Append(threads, NewThread("meraki"))
    /\ UNCHANGED <<envVars, passVars, upsertVars, sideVars, remote, cache, ncalls, calls, lastReq, exc>>

\* POST /update-pihole: a new thread runs the pass with "pihole", whatever
\* the other threads are doing (app.py 92-103)
update_pihole ==
    /\ pc = "app"
    /\ threads # <<>>
    /\ Len(threads) < MaxThreads
    /\ threads' = Append(threads, NewThread("pihole"))
    /\ UNCHANGED <<envVars, passVars, upsertVars, sideVars, remote, cache, ncalls, calls, lastReq, exc>>

\* the pass of thread t goes to the Pi-hole: `(update_type is None or
\* update_type == "pihole") and meraki_clients` (sync_logic.py 177)
ThreadProceeds(t) == t.update_type \in {"None", "pihole"} /\ ProceedToStore

\* thread i calls its target: main() of meraki_pihole_sync.py takes no
\* argument, so a call with one raises TypeError; otherwise the pass loads the
\* configuration, fetches the inventory and either goes to the Pi-hole or returns
ThreadRun(i) ==
    /\ pc = "app"
    /\ threads[i].at = "started"
    /\ threads' = [threads EXCEPT ![i].at =
                      IF variant = "main" /\ threads[i].update_type # "None" THEN "TypeError"
                      ELSE IF ThreadProceeds(threads[i]) THEN "store"
                      ELSE "returned"]
    /\ UNCHANGED <<envVars, passVars, upsertVars, sideVars, remote, cache, ncalls, calls, lastReq, exc>>

\* the pass of thread i is through with the Pi-hole and returns
ThreadReturn(i) ==
    /\ pc = "app"
    /\ threads[i].at = "store"
    /\ threads' = [threads EXCEPT ![i].at = "returned"]
    /\ UNCHANGED <<envVars, passVars, upsertVars, sideVars, remote, cache, ncalls, calls, lastReq, exc>>

\* the threads whose pass is in flight against the Pi-hole
InFlight == {i \in 1..Len(threads) : threads[i].at = "store"}

\* the application at start-up, before lifespan has run
InitThreads ==
    /\ InitCommon
    /\ variant \in {"sync_logic", "main"}
    /\ faults = FALSE
    /\ passesToRun = 0
    /\ hostname_suffix \in Suffixes
    /\ inventory \in {inv \in InventoriesOf(variant) : Len(inv) <= 1}
    /\ pc = "app"
    /\ remote = {}
    /\ cache = EmptyCache
    /\ changelog = <<>>
    /\ history = <<>>

NextThreads ==
    \/ lifespan
    \/ update_meraki
    \/ update_pihole
    \/ \E i \in 1..Len(threads) : ThreadRun(i)
    \/ \E i \in 1..Len(threads) : ThreadReturn(i)

SpecThreads == InitThreads /\ [][NextThreads]_vars

\* threading.Thread(target=run_sync_main, ...).start() of lifespan, of POST
\* /update-pihole or of POST /update-meraki (app.py 39-40, 85-86, 98-99)
thread_start ==
    /\ pc = "idle"
    /\ threads = <<>>
    /\ \E update_type \in {"None", "pihole", "meraki"} : threads' = <<NewThread(update_type)>>
    /\ UNCHANGED <<envVars, passVars, upsertVars, sideVars, remote, cache, ncalls, calls, lastReq, exc>>

\* the target of a thread, called with the thread's argument: main() of
\* meraki_pihole_sync.py takes none and raises TypeError when given one
\* (app.py 26, 85, 98; meraki_pihole_sync.py 488); sync_pihole_dns loads the
\* configuration, fetches the inventory and goes to the Pi-hole only if
\* `(update_type is None or update_type == "pihole") and meraki_clients`
\* (sync_logic.py 165-177)
run_sync_main ==
    /\ pc = "idle"
    /\ threads # <<>>
    /\ threads[1].at = "started"
    /\ IF variant = "main" /\ threads[1].update_type # "None"
       THEN /\ threads' = [threads EXCEPT ![1].at = "TypeError"]
            /\ exc' = "TypeError"
            /\ pc' = "crashed"
            /\ pass' = pass
       ELSE /\ threads' = [threads EXCEPT ![1].at =
                              IF ThreadProceeds(threads[1]) THEN "store" ELSE "returned"]
            /\ exc' = "none"
            /\ pc' = IF ThreadProceeds(threads[1]) THEN "list" ELSE "done"
            /\ pass' = pass + 1
    /\ UNCHANGED <<envVars, sideVars, upserts, remote, cache, idx, sweepTodo, successful_syncs,
                   failed_syncs, changelog, previous_mappings, history, cacheJson, upsertVars,
                   ncalls, calls, lastReq>>

\* the application before a thread is started, in front of a Pi-hole whose
\* answers may be failures
InitForced ==
    /\ InitCommon
    /\ variant \in {"sync_logic", "main"}
    /\ faults = TRUE
    /\ passesToRun = 0
    /\ hostname_suffix \in Suffixes
    /\ inventory \in {inv \in InventoriesOf(variant) : Len(inv) <= 1}
    /\ pc = "idle"
    /\ remote \in {S \in SUBSET Pairs(ClientStoreDomains) : SingleIp(S)}
    /\ cache = EmptyCache
    /\ changelog \in PriorChangelogs
    /\ history = IF changelog = <<>> THEN <<>> ELSE PriorHistory

NextForced ==
    \/ thread_start
    \/ run_sync_main
    \/ FetchRecords
    \/ ProcessClient
    \/ DeleteOldIp
    \/ AddNewRecord
    \/ RecordSyncResult
    \/ EndLoop
    \/ SweepRecord
    \/ FinishPass

SpecForced == InitForced /\ [][NextForced]_vars

----------------------------------------------------------------------------
(* The inventory fetch: get_all_relevant_meraki_clients                       *)
(* (app/clients/meraki_client.py)                                             *)

MaxNetworks == 2    \* networks of the organisation

\* None, as a value comparable with strings
NoneVal == <<"None">>

\* truth value of an optional string: None and "" are false
Truthy(x) == x # NoneVal /\ x # <<>>

\* a network id no organisation holds
UnknownNetwork == 0

\* config["meraki_network_ids"]: no allowlist, or a list of ids
Allowlists ==
    {<<>>, <<1>>, <<UnknownNetwork>>, <<UnknownNetwork, 1>>, <<MaxNetworks>>, <<MaxNetworks, 1>>}

\* what getOrganizationNetworks can answer: APIError, or the list of the
\* organisation's first k networks
OrgAnswers ==
    {[error |-> TRUE, ids |-> <<>>]}
        \cup {[error |-> FALSE, ids |-> [i \in 1..k |-> i]] : k \in 0..MaxNetworks}

MerakiClient(id, description, dhcpHostname, ip, mac, fixedIp) ==
    [id |-> id, description |-> description, dhcpHostname |-> dhcpHostname, ip |-> ip,
     mac |-> mac, fixedIp |-> fixedIp]

\* what getNetworkClients can answer: APIError, another exception, or a
\* listing of clients as the dashboard reports them
ClientAnswers ==
    LET Id1 == <<"c1">>
        Id2 == <<"c2">>
        MacA == <<"a">>
        MacZ == <<"z">>
        KFixed1 == MerakiClient(Id1, <<"a">>, NoneVal, <<"1">>, MacA, <<"1">>)
        KFixed2 == MerakiClient(Id2, NoneVal, <<"z">>, <<"2">>, MacZ, <<"2">>)
        KAgain1 == MerakiClient(Id1, <<"z">>, <<"a">>, <<"2">>, <<"A">>, <<"2">>)
        KMoved == MerakiClient(Id2, <<"z">>, NoneVal, <<"2">>, MacZ, <<"1">>)
        KDynamic == MerakiClient(Id2, <<"z">>, NoneVal, <<"2">>, MacZ, NoneVal)
        KNoName == MerakiClient(Id1, NoneVal, <<>>, <<"1">>, MacA, <<"1">>)
        KNoId == MerakiClient(NoneVal, <<"a">>, NoneVal, <<"1">>, MacA, <<"1">>)
        KNoIp == MerakiClient(Id1, <<"a">>, NoneVal, NoneVal, MacA, <<"1">>)
        KNoMac == MerakiClient(Id2, <<"z">>, NoneVal, <<"2">>, NoneVal, <<"2">>)
        listings ==
            {<<>>, <<KFixed1>>, <<KFixed1, KFixed2>>, <<KFixed1, KAgain1>>, <<KMoved, KDynamic>>,
             <<KNoName, KNoId, KNoIp>>, <<KNoMac, KFixed1>>, <<KFixed1, KNoMac>>}
    IN {[kind |-> "APIError", listing |-> <<>>], [kind |-> "Exception", listing |-> <<>>]}
           \cup {[kind |-> "ok", listing |-> l] : l \in listings}

\* what getNetworkApplianceDhcpSubnets can answer: APIError, another
\* exception, or subnets whose fixedIpAssignments are these (mac, ip) items
DhcpAnswers ==
    LET assignments ==
            {<<>>,
             <<[mac |-> <<"a">>, ip |-> <<"1">>]>>,
             <<[mac |-> <<"A">>, ip |-> <<"1">>], [mac |-> <<"z">>, ip |-> <<"1">>]>>,
             <<[mac |-> <<"a">>, ip |-> NoneVal]>>}
    IN {[kind |-> "APIError", items |-> <<>>], [kind |-> "Exception", items |-> <<>>]}
           \cup {[kind |-> "ok", items |-> it] : it \in assignments}

EmptyMap == [m \in {} |-> <<>>]

\* mac_to_reserved_ip_map: `if mac and assignment_details.get('ip'):
\* mac_to_reserved_ip_map[mac.lower()] = ip`
RECURSIVE BuildReservations(_, _)
BuildReservations(items, acc) ==
    IF items = <<>> THEN acc
    ELSE LET it == Head(items)
             next == IF Truthy(it.mac) /\ Truthy(it.ip)
                     THEN [m \in DOMAIN acc \cup {Lower(it.mac)} |->
                              IF m = Lower(it.mac) THEN it.ip ELSE acc[m]]
                     ELSE acc
         IN BuildReservations(Tail(items), next)

\* the reservations the loop works with after the DHCP answer
ReservationsOf(dhcp) == IF dhcp.kind = "ok" THEN BuildReservations(dhcp.items, EmptyMap) ELSE EmptyMap

\* client_name = description or dhcpHostname
ClientName(k) == IF Truthy(k.description) THEN k.description ELSE k.dhcpHostname

\* mac_to_reserved_ip_map.get(client_mac.lower()) if client_mac
FromReservations(k, resv) ==
    IF Truthy(k.mac) /\ Lower(k.mac) \in DOMAIN resv THEN resv[Lower(k.mac)] ELSE NoneVal

\* the debug line of the fallback formats client_mac.lower(): with no MAC this
\* raises AttributeError
FallbackRaises(k, resv) ==
    /\ ~Truthy(FromReservations(k, resv))
    /\ Truthy(k.fixedIp)
    /\ k.mac = NoneVal

\* configured_fixed_ip once the reservations and the fallback are through:
\* the reservation of the MAC, else, when the network has no reservation at
\* all, the client's fixedIp
ConfiguredFixedIp(k, resv) ==
    IF Truthy(FromReservations(k, resv)) THEN FromReservations(k, resv)
    ELSE IF DOMAIN resv = {} THEN k.fixedIp
    ELSE NoneVal

\* `if client_name and current_ip and client_id:` and `if configured_fixed_ip
\* and configured_fixed_ip == current_ip:`
IsRelevant(k, resv) ==
    /\ Truthy(ClientName(k))
    /\ Truthy(k.ip)
    /\ Truthy(k.id)
    /\ Truthy(ConfiguredFixedIp(k, resv))
    /\ ConfiguredFixedIp(k, resv) = k.ip

\* the record stored for a relevant client
RelevantRecord(k, network_id) ==
    [name |-> ClientName(k), ip |-> k.ip, network_id |-> network_id, meraki_client_id |-> k.id]

DictAppend(m, rec) == Append(m, rec)

\* all_clients_map[client_id] = record: a key already present keeps its place
DictPut(m, rec) ==
    IF \E i \in 1..Len(m) : m[i].meraki_client_id = rec.meraki_client_id
    THEN [i \in 1..Len(m) |-> IF m[i].meraki_client_id = rec.meraki_client_id THEN rec ELSE m[i]]
    ELSE Append(m, rec)

\* the loop over clients_in_network: the dict after it and whether it raised
RECURSIVE FilterClients(_, _, _, _)
FilterClients(listing, resv, network_id, acc) ==
    IF listing = <<>> THEN [map |-> acc, raised |-> FALSE]
    ELSE LET k == Head(listing)
         IN IF FallbackRaises(k, resv) THEN [map |-> acc, raised |-> TRUE]
            ELSE FilterClients(Tail(listing), resv, network_id,
                               IF IsRelevant(k, resv)
                               THEN DictPut(acc, RelevantRecord(k, network_id))
                               ELSE acc)

\* networks to query after the listing of the organisation's networks raised
\* APIError: none, the fetch returns []
NetworksOnErrorSpecified(specified) == specified
NetworksOnError(specified) == <<>>

\* the specified ids found in the organisation's list, in the order given
RECURSIVE ValidIds(_, _)
ValidIds(specified, org) ==
    IF specified = <<>> THEN <<>>
    ELSE (IF Head(specified) \in SeqToSet(org) THEN <<Head(specified)>> ELSE <<>>)
             \o ValidIds(Tail(specified), org)

\* networks_to_query_details
ResolveNetworks(specified, answer) ==
    IF answer.error THEN NetworksOnError(specified)
    ELSE IF specified = <<>> THEN answer.ids
    ELSE IF answer.ids = <<>> THEN specified
    ELSE ValidIds(specified, answer.ids)

MerakiCall(op, network_id) == [op |-> op, network |-> network_id]

\* the listing of the organisation's networks and the choice of the networks
\* to query; with none to query the fetch returns []
FetchNetworks ==
    /\ f_pc = "idle"
    /\ \E answer \in OrgAnswers :
          /\ org_networks' = answer
          /\ networks_to_query' = ResolveNetworks(specified_network_ids, answer)
    /\ meraki_calls' = Append(meraki_calls, MerakiCall("getOrganizationNetworks", UnknownNetwork))
    /\ f_pc' = IF networks_to_query' = <<>> THEN "returned" ELSE "loop"
    /\ UNCHANGED <<envVars, passVars, upsertVars, threads, webVars, listVars, intervalVars, loopVars, remote, cache,
                   ncalls, calls, lastReq, exc, specified_network_ids, f_idx, queried,
                   all_clients_map, f_result>>

\* whether the try of the loop body catches what was raised: APIError and any
\* other Exception are both caught and logged
CaughtApiErrorOnly(kind) == kind = "APIError"
CaughtPerNetwork(kind) == kind \in {"APIError", "Exception"}

\* what one iteration raised, "none" if nothing
RaisedBy(dhcp, clients, filtered) ==
    IF dhcp.kind = "Exception" THEN "Exception"
    ELSE IF clients.kind # "ok" THEN clients.kind
    ELSE IF filtered.raised THEN "Exception"
    ELSE "none"

\* one iteration of the loop over networks_to_query_details
ProcessNetwork ==
    /\ f_pc = "loop"
    /\ f_idx <= Len(networks_to_query)
    /\ \E dhcp \in DhcpAnswers :
       \E clients \in IF dhcp.kind = "Exception"
                      THEN {[kind |-> "notcalled", listing |-> <<>>]}
                      ELSE ClientAnswers :
          LET network_id == networks_to_query[f_idx]
              resv == ReservationsOf(dhcp)
              filtered == FilterClients(clients.listing, resv, network_id, all_clients_map)
              raised == RaisedBy(dhcp, clients, filtered)
          IN /\ meraki_calls' = meraki_calls
                    \o <<MerakiCall("getNetworkApplianceDhcpSubnets", network_id)>>
                    \o (IF dhcp.kind = "Exception" THEN <<>>
                        ELSE <<MerakiCall("getNetworkClients", network_id)>>)
             /\ all_clients_map' = filtered.map
             /\ queried' = Append(queried, [network |-> network_id, dhcp |-> dhcp,
                                            clients |-> clients, raised |-> raised])
             /\ IF raised = "none" \/ CaughtPerNetwork(raised)
                THEN f_pc' = "loop" /\ f_idx' = f_idx + 1
                ELSE f_pc' = "raised" /\ f_idx' = f_idx
    /\ UNCHANGED <<envVars, passVars, upsertVars, threads, webVars, listVars, intervalVars, loopVars, remote, cache,
                   ncalls, calls, lastReq, exc, specified_network_ids, org_networks,
                   networks_to_query, f_result>>

\* return list(all_clients_map.values())
FetchReturn ==
    /\ f_pc = "loop"
    /\ f_idx > Len(networks_to_query)
    /\ f_result' = all_clients_map
    /\ f_pc' = "returned"
    /\ UNCHANGED <<envVars, passVars, upsertVars, threads, webVars, listVars, intervalVars, loopVars, remote, cache,
                   ncalls, calls, lastReq, exc, specified_network_ids, org_networks,
                   networks_to_query, f_idx, queried, meraki_calls, all_clients_map>>

\* the name and address the pass reads from each record
RECURSIVE AsInventory(_)
AsInventory(result) ==
    IF result = <<>> THEN <<>>
    ELSE <<[name |-> Head(result).name, ip |-> Head(result).ip]>> \o AsInventory(Tail(result))

\* the pass receives the list: with an empty list it logs and returns, else
\* it goes on to the Pi-hole (sync_logic.py 175-177)
PassReceives ==
    /\ f_pc = "returned"
    /\ pc = "fetch"
    /\ inventory' = AsInventory(f_result)
    /\ pc' = IF inventory' # <<>> THEN "list" ELSE "done"
    /\ f_pc' = "handed"
    /\ UNCHANGED <<variant, faults, passesToRun, hostname_suffix, upsertVars, threads, webVars, listVars, intervalVars,
                   loopVars, remote, cache, ncalls, calls, lastReq, exc, pass, idx, sweepTodo,
                   successful_syncs, failed_syncs, changelog, previous_mappings, history, cacheJson,
                   upserts, specified_network_ids, org_networks, networks_to_query, f_idx, queried,
                   meraki_calls, all_clients_map, f_result>>

\* a pass of sync_logic about to call the fetch, with any allowlist
InitFetch ==
    /\ InitCore
    /\ WebIdle
    /\ ListIdle
    /\ IntervalIdle
    /\ LoopIdle
    /\ variant = "sync_logic"
    /\ faults = FALSE
    /\ passesToRun = 1
    /\ hostname_suffix \in Suffixes
    /\ inventory = <<>>
    /\ pc = "fetch"
    /\ remote = {}
    /\ cache = EmptyCache
    /\ changelog = <<>>
    /\ history = <<>>
    /\ f_pc = "idle"
    /\ specified_network_ids \in Allowlists
    /\ org_networks = [error |-> FALSE, ids |-> <<>>]
    /\ networks_to_query = <<>>
    /\ f_idx = 1
    /\ queried = <<>>
    /\ meraki_calls = <<>>
    /\ all_clients_map = <<>>
    /\ f_result = <<>>

NextFetch ==
    \/ FetchNetworks
    \/ ProcessNetwork
    \/ FetchReturn
    \/ PassReceives
    \/ FetchRecords

SpecFetch == InitFetch /\ [][NextFetch]_vars

----------------------------------------------------------------------------
(* The sync interval: get_sync_interval (sync_runner.py, sync_logic.py) and   *)
(* POST /update-interval (app.py)                                             *)

MaxRequests == 3    \* operations on the interval in one behaviour

Digits == {"0", "1", "2", "3", "4", "5", "6", "7", "8", "9"}

DigitVal(c) ==
    CASE c = "0" -> 0 [] c = "1" -> 1 [] c = "2" -> 2 [] c = "3" -> 3 [] c = "4" -> 4
      [] c = "5" -> 5 [] c = "6" -> 6 [] c = "7" -> 7 [] c = "8" -> 8 [] c = "9" -> 9

DigitChar(d) ==
    CASE d = 0 -> "0" [] d = 1 -> "1" [] d = 2 -> "2" [] d = 3 -> "3" [] d = 4 -> "4"
      [] d = 5 -> "5" [] d = 6 -> "6" [] d = 7 -> "7" [] d = 8 -> "8" [] d = 9 -> "9"

\* the digits of an integer literal: digits, with single underscores between them
IsLiteralBody(s) ==
    /\ s # <<>>
    /\ \A i \in 1..Len(s) : s[i] \in Digits \cup {"_"}
    /\ s[1] \in Digits
    /\ s[Len(s)] \in Digits
    /\ \A i \in 1..(Len(s) - 1) : ~(s[i] = "_" /\ s[i + 1] = "_")

\* value of the digits of s read in base ten, underscores left out
RECURSIVE DigitsValue(_, _)
DigitsValue(s, acc) ==
    IF s = <<>> THEN acc
    ELSE IF Head(s) = "_" THEN DigitsValue(Tail(s), acc)
    ELSE DigitsValue(Tail(s), 10 * acc + DigitVal(Head(s)))

NoInt == [ok |-> FALSE, value |-> 0]

\* int(s) for a string: surrounding white space is ignored, then an optional
\* sign, then the digits; anything else raises ValueError (ok = FALSE)
ParseInt(s) ==
    LET t == Strip(s)
        signed == t # <<>> /\ Head(t) \in {"-", "+"}
        body == IF signed THEN Tail(t) ELSE t
    IN IF IsLiteralBody(body)
       THEN [ok |-> TRUE,
             value |-> IF signed /\ Head(t) = "-" THEN 0 - DigitsValue(body, 0)
                       ELSE DigitsValue(body, 0)]
       ELSE NoInt

RECURSIVE NatToStr(_)
NatToStr(n) == IF n < 10 THEN <<DigitChar(n)>> ELSE NatToStr(n \div 10) \o <<DigitChar(n % 10)>>

\* str(n) without the sign
IntToStrUnsigned(n) == NatToStr(IF n < 0 THEN 0 - n ELSE n)

\* str(n)
IntToStr(n) == IF n < 0 THEN <<"-">> \o NatToStr(0 - n) ELSE NatToStr(n)

Absent == [state |-> "absent", content |-> <<>>]
Unreadable == [state |-> "unreadable", content |-> <<>>]
Present(content) == [state |-> "present", content |-> content]

\* what /app/sync_interval.txt can be when the application starts
IntervalFiles ==
    LET contents ==
            {<<"6", "0">>, <<" ", "7", " ">>, <<"-", "1">>, <<"x">>, <<>>, <<"6", "_", "0">>, <<"0">>}
    IN {Absent, Unreadable} \cup {Present(c) : c \in contents}

Unset == [set |-> FALSE, value |-> <<>>]

\* what SYNC_INTERVAL_SECONDS can be
EnvIntervals ==
    {Unset} \cup {[set |-> TRUE, value |-> v] : v \in {<<"4", "5">>, <<"x">>, <<>>, <<"-", "1">>}}

\* int(...) of the file's content: FileNotFoundError and other OSError when the
\* file cannot be opened, ValueError when the content is no integer
IntOfFile(file) == IF file.state = "present" THEN ParseInt(Strip(file.content)) ELSE NoInt

\* int(os.getenv("SYNC_INTERVAL_SECONDS")): TypeError when unset, ValueError
\* when no integer
IntOfEnv(env) == IF env.set THEN ParseInt(env.value) ELSE NoInt

DefaultInterval == 300

\* the environment variable consulted before the file
get_sync_interval_env_first(file, env) ==
    IF IntOfEnv(env).ok THEN IntOfEnv(env).value
    ELSE IF IntOfFile(file).ok THEN IntOfFile(file).value
    ELSE DefaultInterval

\* get_sync_interval of sync_runner.py: the file, then the environment, then 300
get_sync_interval(file, env) ==
    IF IntOfFile(file).ok THEN IntOfFile(file).value
    ELSE IF IntOfEnv(env).ok THEN IntOfEnv(env).value
    ELSE DefaultInterval

\* get_sync_interval of sync_logic.py: the file is read only if it exists; an
\* OSError or ValueError while reading falls through as well
get_sync_interval_logic(file, env) ==
    LET fromFile == IF file.state = "absent" THEN NoInt ELSE IntOfFile(file)
    IN IF fromFile.ok THEN fromFile.value
       ELSE IF IntOfEnv(env).ok THEN IntOfEnv(env).value
       ELSE DefaultInterval

\* the "interval" field of a request body: a JSON integer, a JSON string, or
\* no field at all
IntField(n) == [kind |-> "int", n |-> n, s |-> <<>>]
StrField(s) == [kind |-> "str", n |-> 0, s |-> s]
NoField == [kind |-> "none", n |-> 0, s |-> <<>>]

IntervalFields ==
    {IntField(n) : n \in {-1, 0, 7, 120}}
        \cup {StrField(s) : s \in {<<"6", "0", "0">>, <<"a", "b", "c">>, <<>>}}
        \cup {NoField}

\* validation of `interval: int` that lets every body through
ValidatesAlways(field) == TRUE

\* validation of the body against `interval: int`: an integer, or a string
\* that reads as one
Validates(field) ==
    \/ field.kind = "int"
    \/ field.kind = "str" /\ ParseInt(field.s).ok

\* data.interval after validation
Coerced(field) == IF field.kind = "int" THEN field.n ELSE ParseInt(field.s).value

\* POST /update-interval: a body that does not validate is answered 422 and
\* the handler is not called; else the handler writes str(data.interval) to
\* the file and answers 200; a file that cannot be written makes it raise,
\* which is answered 500
update_interval ==
    /\ pc = "interval"
    /\ nreq < MaxRequests
    /\ \E field \in IntervalFields :
          /\ request' = field
          /\ IF ~Validates(field)
             THEN http_status' = 422 /\ interval_file' = interval_file
             ELSE IF interval_file.state = "unreadable"
             THEN http_status' = 500 /\ interval_file' = interval_file
             ELSE http_status' = 200 /\ interval_file' = Present(IntToStr(Coerced(field)))
    /\ last_op' = "post"
    /\ nreq' = nreq + 1
    /\ UNCHANGED <<envVars, passVars, upsertVars, threads, webVars, listVars, fetchVars, loopVars, remote, cache,
                   ncalls, calls, lastReq, exc, env_interval, sync_interval>>

\* a call of get_sync_interval, of either module
GetSyncInterval ==
    /\ pc = "interval"
    /\ nreq < MaxRequests
    /\ \E impl \in {"sync_runner", "sync_logic"} :
          sync_interval' = IF impl = "sync_runner"
                           THEN get_sync_interval(interval_file, env_interval)
                           ELSE get_sync_interval_logic(interval_file, env_interval)
    /\ last_op' = "get"
    /\ nreq' = nreq + 1
    /\ UNCHANGED <<envVars, passVars, upsertVars, threads, webVars, listVars, fetchVars, loopVars, remote, cache,
                   ncalls, calls, lastReq, exc, interval_file, env_interval, http_status, request>>

\* the application with any interval file and any environment
InitInterval ==
    /\ InitCore
    /\ WebIdle
    /\ ListIdle
    /\ FetchIdle
    /\ LoopIdle
    /\ variant = "sync_logic"
    /\ faults = FALSE
    /\ passesToRun = 0
    /\ hostname_suffix \in Suffixes
    /\ inventory = <<>>
    /\ pc = "interval"
    /\ remote = {}
    /\ cache = EmptyCache
    /\ changelog = <<>>
    /\ history = <<>>
    /\ interval_file \in IntervalFiles
    /\ env_interval \in EnvIntervals
    /\ sync_interval = DefaultInterval
    /\ http_status = 0
    /\ request = NoField
    /\ last_op = "none"
    /\ nreq = 0

NextInterval == update_interval \/ GetSyncInterval

SpecInterval == InitInterval /\ [][NextInterval]_vars

----------------------------------------------------------------------------
(* Configuration and the scheduled loop: load_app_config_from_env             *)
(* (sync_logic.py, meraki_pihole_sync.py), run_sync (sync_runner.py), the      *)
(* script entry of meraki_pihole_sync.py and the thread of app.py              *)

\* os.getenv of a variable that is not set
NotSet == "<unset>"

\* `if not value`
IsMissing(v) == v \in {NotSet, ""}

\* str.upper() on the values used
Upper(v) ==
    CASE v = "your_meraki_organization_id" -> "YOUR_MERAKI_ORGANIZATION_ID"
      [] v = "YOUR_MERAKI_ORGANIZATION_ID" -> "YOUR_MERAKI_ORGANIZATION_ID"
      [] v = "L_1" -> "L_1"
      [] v = "your_pihole_api_url" -> "YOUR_PIHOLE_API_URL"
      [] v = "http://pi/admin" -> "HTTP://PI/ADMIN"
      [] v = "http://your_pihole_ip_or_hostname/admin" -> "HTTP://YOUR_PIHOLE_IP_OR_HOSTNAME/ADMIN"
      [] v = "" -> ""

\* "YOUR_PIHOLE_IP_OR_HOSTNAME" in s, for the upper-cased values used
HasPlaceholderHost(s) == s = "HTTP://YOUR_PIHOLE_IP_OR_HOSTNAME/ADMIN"

\* the environment a pass can start in
Environments ==
    [MERAKI_API_KEY : {NotSet, "k"},
     MERAKI_ORG_ID : {NotSet, "L_1", "YOUR_MERAKI_ORGANIZATION_ID", "your_meraki_organization_id"},
     PIHOLE_API_URL : {NotSet, "", "http://pi/admin", "your_pihole_api_url",
                       "http://your_pihole_ip_or_hostname/admin"},
     PIHOLE_API_KEY : {NotSet, "k"},
     HOSTNAME_SUFFIX : {NotSet, ".l"}]

\* mandatory_vars of either module
MandatoryVars(v) ==
    IF v = "sync_logic"
    THEN {"MERAKI_API_KEY", "MERAKI_ORG_ID", "PIHOLE_API_URL", "PIHOLE_API_KEY", "HOSTNAME_SUFFIX"}
    ELSE {"MERAKI_API_KEY", "MERAKI_ORG_ID", "PIHOLE_API_URL", "HOSTNAME_SUFFIX"}

\* load_app_config_from_env calls sys.exit(1): a mandatory variable is missing,
\* or the organisation id or the Pi-hole URL holds a placeholder
ConfigExits(v, env) ==
    IF \E name \in MandatoryVars(v) : IsMissing(env[name]) THEN TRUE
    ELSE \/ Upper(env.MERAKI_ORG_ID) = "YOUR_MERAKI_ORGANIZATION_ID"
         \/ Upper(env.PIHOLE_API_URL) = "YOUR_PIHOLE_API_URL"
         \/ HasPlaceholderHost(Upper(env.PIHOLE_API_URL))

\* how a pass can end: the configuration is loaded before anything else, and
\* sys.exit(1) there leaves the pass before the dashboard client is built
PassOutcomes(v, env) ==
    IF ConfigExits(v, env) THEN {[how |-> "SystemExit", called |-> FALSE]}
    ELSE {[how |-> "returned", called |-> TRUE], [how |-> "Exception", called |-> TRUE],
          [how |-> "Exception", called |-> FALSE]}

\* what catches the end of a pass:
\*   run_sync: `except SystemExit` and `except Exception` log and go on to the sleep;
\*   script:   `except Exception` logs and calls sys.exit(1); SystemExit passes through;
\*   thread:   the thread ends, the application goes on
\*   call:     sync_pihole_dns called with no handler around it
ExitAfterPass(entry, how) ==
    IF entry \in {"run_sync", "thread"} THEN "running"
    ELSE IF how = "returned" THEN (IF entry = "script" THEN "0" ELSE "running")
    ELSE "1"

\* `sync_interval = get_sync_interval()` at the top of the loop
LoopGetInterval ==
    /\ pc = "sched"
    /\ s_pc = "top"
    /\ sync_interval' = get_sync_interval(interval_file, env_interval)
    /\ s_pc' = "pass"
    /\ UNCHANGED <<envVars, passVars, upsertVars, threads, webVars, listVars, fetchVars, remote, cache, ncalls, calls,
                   lastReq, exc, interval_file, env_interval, http_status, request, last_op, nreq,
                   s_entry, environ, s_outcome, s_called, s_exit>>

\* main() and the handlers around it
RunPass ==
    /\ pc = "sched"
    /\ s_pc = "pass"
    /\ \E o \in PassOutcomes(variant, environ) :
          /\ s_outcome' = o.how
          /\ s_called' = o.called
          /\ s_exit' = ExitAfterPass(s_entry, o.how)
          /\ s_pc' = IF s_entry = "run_sync" /\ s_exit' = "running" THEN "sleep" ELSE "ended"
    /\ UNCHANGED <<envVars, passVars, upsertVars, threads, webVars, listVars, fetchVars, intervalVars, remote, cache,
                   ncalls, calls, lastReq, exc, s_entry, environ>>

\* time.sleep(sync_interval), outside the try: a negative value raises
\* ValueError, which leaves run_sync
Sleep ==
    /\ pc = "sched"
    /\ s_pc = "sleep"
    /\ IF sync_interval < 0
       THEN s_pc' = "ended" /\ s_exit' = "1"
       ELSE s_pc' = "top" /\ s_exit' = s_exit
    /\ UNCHANGED <<envVars, passVars, upsertVars, threads, webVars, listVars, fetchVars, intervalVars, remote, cache,
                   ncalls, calls, lastReq, exc, s_entry, environ, s_outcome, s_called>>

\* the interval files the loop is started with
LoopFiles == {Absent, Present(<<"6", "0">>), Present(<<"0">>), Present(<<"-", "1">>)}

\* a process about to run passes: the loop of sync_runner, the script or a
\* thread of the application (all three run main), or a call of sync_pihole_dns
InitLoop ==
    /\ InitCore
    /\ WebIdle
    /\ ListIdle
    /\ FetchIdle
    /\ variant \in {"sync_logic", "main"}
    /\ faults = FALSE
    /\ passesToRun = 0
    /\ hostname_suffix \in Suffixes
    /\ inventory = <<>>
    /\ pc = "sched"
    /\ remote = {}
    /\ cache = EmptyCache
    /\ changelog = <<>>
    /\ history = <<>>
    /\ interval_file \in LoopFiles
    /\ env_interval = Unset
    /\ sync_interval = DefaultInterval
    /\ http_status = 0
    /\ request = NoField
    /\ last_op = "none"
    /\ nreq = 0
    /\ s_entry \in IF variant = "main" THEN {"run_sync", "script", "thread"} ELSE {"call"}
    /\ s_pc = IF s_entry = "run_sync" THEN "top" ELSE "pass"
    /\ environ \in Environments
    /\ s_outcome = "none"
    /\ s_called = FALSE
    /\ s_exit = "running"

NextLoop == LoopGetInterval \/ RunPass \/ Sleep

SpecLoop == InitLoop /\ [][NextLoop]_vars

\* the loop is a sequential program: its next statement is always executed
SpecLoopFair == SpecLoop /\ WF_vars(NextLoop)

----------------------------------------------------------------------------
(* POST /clear-log (app.py)                                                    *)

\* a write that leaves the file as it was
WriteNothing(f) == f

\* Path(...).write_text(''): the file exists afterwards and is empty
WriteEmptyText(f) == [dir |-> TRUE, exists |-> TRUE, size |-> 0]

\* POST /clear-log: a body without a string `log` is answered 422 and the
\* handler is not called; `log == 'sync'` truncates the file and answers 200,
\* or 404 when write_text raises FileNotFoundError (no directory to create
\* the file in); any other value is answered 400
clear_log ==
    /\ pc = "clear-log"
    /\ nreq < MaxRequests
    /\ \E field \in {StrField(s) : s \in {<<"s", "y", "n", "c">>, <<"S", "y", "n", "c">>,
                                          <<"s", "y", "n", "c", " ">>,
                                          <<"i", "n", "v", "a", "l", "i", "d">>, <<"a", "p", "p">>,
                                          <<>>}}
                       \cup {NoField} :
          /\ request' = field
          /\ IF field.kind # "str"
             THEN http_status' = 422 /\ sync_log' = sync_log
             ELSE IF field.s = <<"s", "y", "n", "c">>
             THEN IF sync_log.dir
                  THEN http_status' = 200 /\ sync_log' = WriteEmptyText(sync_log)
                  ELSE http_status' = 404 /\ sync_log' = sync_log
             ELSE http_status' = 400 /\ sync_log' = sync_log
    /\ last_op' = "clear"
    /\ nreq' = nreq + 1
    /\ UNCHANGED <<envVars, passVars, upsertVars, threads, fetchVars, loopVars, listVars, remote, cache,
                   ncalls, calls, lastReq, exc, interval_file, env_interval, sync_interval,
                   allowed_subnets, x_forwarded_for, peer, handler_called>>

\* the application with the sync log in any state: no directory, no file,
\* or a file of some size
InitClearLog ==
    /\ InitCore
    /\ FetchIdle
    /\ IntervalIdle
    /\ LoopIdle
    /\ ListIdle
    /\ variant = "sync_logic"
    /\ faults = FALSE
    /\ passesToRun = 0
    /\ hostname_suffix \in Suffixes
    /\ inventory = <<>>
    /\ pc = "clear-log"
    /\ remote = {}
    /\ cache = EmptyCache
    /\ changelog = <<>>
    /\ history = <<>>
    /\ sync_log \in {[dir |-> FALSE, exists |-> FALSE, size |-> 0],
                     [dir |-> TRUE, exists |-> FALSE, size |-> 0]}
                        \cup {[dir |-> TRUE, exists |-> TRUE, size |-> n] : n \in {0, 1, 2, 14}}
    /\ allowed_subnets = [set |-> FALSE, value |-> <<>>]
    /\ x_forwarded_for = [set |-> FALSE, value |-> <<>>]
    /\ peer = <<>>
    /\ handler_called = FALSE

SpecClearLog == InitClearLog /\ [][clear_log]_vars

----------------------------------------------------------------------------
(* The IP allowlist: IPWhitelistMiddleware.dispatch (app.py)                   *)
(* A text is a sequence of items: "," and " ", and whole words such as         *)
(* "10.0.0.1" or "10.0.0.0/24".                                                *)

\* str.split(",")
RECURSIVE SplitComma(_, _)
SplitComma(s, cur) ==
    IF s = <<>> THEN <<cur>>
    ELSE IF Head(s) = "," THEN <<cur>> \o SplitComma(Tail(s), <<>>)
    ELSE SplitComma(Tail(s), Append(cur, Head(s)))

\* the number a dotted address stands for, -1 for a word that is no address
AddressValue(word) ==
    CASE word = "10.0.0.0" -> 10 * 16777216
      [] word = "10.0.0.1" -> 10 * 16777216 + 1
      [] word = "10.0.1.1" -> 10 * 16777216 + 256 + 1
      [] word = "1.1.1.1" -> 16777216 + 65536 + 256 + 1
      [] OTHER -> -1

\* ip_address(text): ok = FALSE stands for ValueError
ip_address(text) ==
    IF Len(text) = 1 /\ AddressValue(text[1]) >= 0
    THEN [ok |-> TRUE, value |-> AddressValue(text[1])]
    ELSE [ok |-> FALSE, value |-> 0]

\* address and prefix length of a word of the form address/prefix
NetworkParts(word) ==
    CASE word = "10.0.0.0/24" -> [address |-> "10.0.0.0", prefix |-> 24]
      [] word = "10.0.0.1/24" -> [address |-> "10.0.0.1", prefix |-> 24]
      [] word = "1.1.1.1/32" -> [address |-> "1.1.1.1", prefix |-> 32]
      [] OTHER -> [address |-> word, prefix |-> 32]

\* number of addresses in a network of this prefix length
HostCount(prefix) == 2 ^ (32 - prefix)

\* ip_network(text), strict: ValueError for a word that is no network and
\* for a network address with host bits set
ip_network(text) ==
    IF Len(text) # 1 THEN [ok |-> FALSE, base |-> 0, prefix |-> 0]
    ELSE LET parts == NetworkParts(text[1])
             base == AddressValue(parts.address)
         IN IF base >= 0 /\ base % HostCount(parts.prefix) = 0
            THEN [ok |-> TRUE, base |-> base, prefix |-> parts.prefix]
            ELSE [ok |-> FALSE, base |-> 0, prefix |-> 0]

\* client_ip in subnet
InSubnet(value, net) == value \div HostCount(net.prefix) = net.base \div HostCount(net.prefix)

\* [ip_network(subnet.strip()) for subnet in allowed_subnets_str.split(",")]
SubnetsOf(text) ==
    LET parts == SplitComma(text, <<>>)
    IN [i \in 1..Len(parts) |-> ip_network(Strip(parts[i]))]

\* request.headers.get("X-Forwarded-For", request.client.host).split(",")[0].strip()
ClientIpText(header, host) ==
    Strip(SplitComma(IF header.set THEN header.value ELSE host, <<>>)[1])

\* what dispatch does with a request: "handler" (call_next), 403, or 500
\* when ip_network or ip_address raises ValueError; with ALLOWED_SUBNETS unset
\* or empty nothing is checked
Dispatch(allowed, header, host) ==
    IF ~allowed.set \/ allowed.value = <<>> THEN "handler"
    ELSE LET nets == SubnetsOf(allowed.value)
             ip == ip_address(ClientIpText(header, host))
         IN IF \E i \in 1..Len(nets) : ~nets[i].ok THEN "500"
            ELSE IF ~ip.ok THEN "500"
            ELSE IF ~\E i \in 1..Len(nets) : InSubnet(ip.value, nets[i]) THEN "403"
            ELSE "handler"

\* a request passes through the middleware
dispatch ==
    /\ pc = "allowlist"
    /\ nreq < MaxRequests
    /\ \E header \in {[set |-> FALSE, value |-> <<>>]}
                        \cup {[set |-> TRUE, value |-> v] :
                                v \in {<<"10.0.0.1">>, <<"10.0.1.1">>, <<"1.1.1.1">>,
                                       <<"10.0.0.1", ",", " ", "10.0.1.1">>,
                                       <<"10.0.1.1", ",", " ", "10.0.0.1">>,
                                       <<"unknown">>, <<>>}} :
       \E host \in {<<"10.0.0.1">>, <<"10.0.1.1">>} :
          LET answer == Dispatch(allowed_subnets, header, host)
          IN /\ x_forwarded_for' = header
             /\ peer' = host
             /\ handler_called' = (answer = "handler")
             /\ http_status' = CASE answer = "handler" -> 200
                                 [] answer = "403" -> 403
                                 [] answer = "500" -> 500
    /\ last_op' = "dispatch"
    /\ nreq' = nreq + 1
    /\ UNCHANGED <<envVars, passVars, upsertVars, threads, fetchVars, loopVars, listVars, remote, cache,
                   ncalls, calls, lastReq, exc, interval_file, env_interval, sync_interval,
                   request, sync_log, allowed_subnets>>

\* the application with any value of ALLOWED_SUBNETS
InitAllowlist ==
    /\ InitCore
    /\ FetchIdle
    /\ IntervalIdle
    /\ LoopIdle
    /\ ListIdle
    /\ variant = "sync_logic"
    /\ faults = FALSE
    /\ passesToRun = 0
    /\ hostname_suffix \in Suffixes
    /\ inventory = <<>>
    /\ pc = "allowlist"
    /\ remote = {}
    /\ cache = EmptyCache
    /\ changelog = <<>>
    /\ history = <<>>
    /\ sync_log = [dir |-> TRUE, exists |-> FALSE, size |-> 0]
    /\ allowed_subnets \in
           {[set |-> FALSE, value |-> <<>>]}
               \cup {[set |-> TRUE, value |-> v] :
                       v \in {<<>>, <<"10.0.0.0/24">>, <<"10.0.0.0/24", ",", " ", "1.1.1.1/32">>,
                              <<"10.0.0.0/24", ",">>, <<"10.0.0.1/24">>}}
    /\ x_forwarded_for = [set |-> FALSE, value |-> <<>>]
    /\ peer = <<>>
    /\ handler_called = FALSE

SpecAllowlist == InitAllowlist /\ [][dispatch]_vars

----------------------------------------------------------------------------
(* The store listing on its own: get_pihole_custom_dns_records over every      *)
(* shape of answer (pihole_client.py)                                          *)

\* one item of the "data" list: a [domain, ip] pair of strings, a pair of
\* numbers, a one-element list, or a bare string
Item(shape, domain, ip) == [shape |-> shape, domain |-> domain, ip |-> ip]

\* the answers a listing request can get from a Pi-hole holding S: a status
\* and a body that is a dictionary with a "data" list, a dictionary without
\* "data" or with a "data" that is no list, an empty dictionary, another
\* JSON value (a list, the empty list, a number, null), no body, or text
\* that is not JSON
ListingAnswers(S) ==
    LET odd == {Item("numbers", <<>>, <<>>), Item("short", <<"a", ".", "l">>, <<>>),
                Item("text", <<"a", ".", "l">>, <<>>)}
        wellFormed == {[k \in DOMAIN data |-> Item("pair", data[k].domain, data[k].ip)] :
                          data \in Listings(S)}
        lists == wellFormed \cup {<<i>> \o items : i \in odd, items \in wellFormed}
        bodies == {[shape |-> "data_list", items |-> items] : items \in lists}
                    \cup {[shape |-> sh, items |-> <<>>] :
                            sh \in {"data_missing", "data_not_list", "empty_dict", "json_list",
                                    "json_empty_list", "json_number", "json_null", "empty_body",
                                    "not_json"}}
    IN  {[status |-> 200, shape |-> b.shape, items |-> b.items] : b \in bodies}
          \cup {[status |-> st, shape |-> "empty_body", items |-> <<>>] : st \in {403, 500}}

\* _pihole_api_request for the listing: None after raise_for_status or a
\* request exception, the parsed JSON value of a body that is JSON, and a
\* {"success": True, "message": ...} dictionary for an empty or non-JSON body
\* (pihole_client.py lines 16-60)
pihole_api_request_json(answer) ==
    IF answer.status # 200 THEN [value |-> "None", truthy |-> FALSE]
    ELSE IF answer.shape \in {"empty_body", "not_json", "data_missing", "data_not_list",
                              "data_list"}
    THEN [value |-> "dict", truthy |-> TRUE]
    ELSE IF answer.shape = "empty_dict" THEN [value |-> "dict", truthy |-> FALSE]
    ELSE IF answer.shape = "json_null" THEN [value |-> "None", truthy |-> FALSE]
    ELSE [value |-> "other", truthy |-> answer.shape \in {"json_list", "json_number"}]

\* the listing raises AttributeError: .get of a value that is no dictionary
\* (line 69), or .strip of a pair element that is no string (lines 76-79)
Raises(response_data, answer) ==
    /\ response_data.truthy
    /\ \/ response_data.value # "dict"
       \/ /\ answer.shape = "data_list"
          /\ \E k \in 1..Len(answer.items) : answer.items[k].shape = "numbers"

\* get_pihole_custom_dns_records (lines 63-92): the records of the two-element
\* items of a "data" list, an empty map for any other truthy dictionary, None
\* when _pihole_api_request returned nothing truthy
get_pihole_custom_dns_records(answer) ==
    LET response_data == pihole_api_request_json(answer)
        IsPair(item) == item.shape = "pair"
    IN  IF Raises(response_data, answer)
        THEN [kind |-> "AttributeError", records |-> EmptyCache]
        ELSE IF response_data.truthy /\ answer.shape = "data_list"
        THEN [kind |-> "map", records |-> BuildRecords(SelectSeq(answer.items, IsPair), EmptyCache)]
        ELSE IF response_data.truthy
        THEN [kind |-> "map", records |-> EmptyCache]
        ELSE [kind |-> "None", records |-> EmptyCache]

\* one call of the listing by a caller that keeps the map it gets
ListRecords ==
    /\ pc = "listing"
    /\ ncalls < MaxCalls
    /\ ncalls' = ncalls + 1
    /\ \E answer \in ListingAnswers(remote) :
         LET result == get_pihole_custom_dns_records(answer)
         IN  /\ l_response' = answer
             /\ l_result' = result.kind
             /\ cache' = IF result.kind = "map" THEN result.records ELSE cache
             /\ exc' = IF result.kind \in {"map", "None"} THEN exc ELSE result.kind
             /\ calls' = Append(calls, CallEntry("get", <<>>, <<>>, result.kind = "map"))
             /\ pc' = IF result.kind \in {"map", "None"} THEN pc ELSE "crashed"
             /\ lastReq' = [status |-> answer.status, attempts |-> 1, auths |-> 0]
    /\ UNCHANGED <<envVars, upsertVars, threads, fetchVars, intervalVars, loopVars, webVars,
                   remote, pass, idx, sweepTodo, successful_syncs, failed_syncs, changelog,
                   previous_mappings, history, cacheJson, upserts>>

\* the client before its first listing, against a Pi-hole holding any records
InitListing ==
    /\ InitCommon
    /\ variant = "sync_logic"
    /\ faults = TRUE
    /\ passesToRun = 0
    /\ changelog = <<>>
    /\ history = <<>>
    /\ hostname_suffix \in Suffixes
    /\ inventory = <<>>
    /\ pc = "listing"
    /\ remote \in SUBSET Pairs(ClientStoreDomains)
    /\ cache = EmptyCache

SpecListing == InitListing /\ [][ListRecords]_vars

----------------------------------------------------------------------------
(* Properties *)

WriteOps == {"add", "delete"}

\* the records of the inventory that the client loop hands to the upsert
ValidClient(client) ==
    variant = "main" \/ (client.name # <<>> /\ ~Contains(client.name, ":"))

\* two clients of the inventory derive the same hostname for different IPs
HostnameCollision ==
    \E i, j \in 1..Len(inventory) :
        /\ ValidClient(inventory[i])
        /\ ValidClient(inventory[j])
        /\ DomainToSync(inventory[i]) = DomainToSync(inventory[j])
        /\ inventory[i].ip # inventory[j].ip

\* C1: when sync_pihole_dns runs twice in succession on the same inventory
\* and every request succeeds, the second pass sends no add and no delete.
C1_SecondPassNoWrites ==
    variant = "sync_logic" =>
        \A k \in 1..Len(calls) : calls[k].pass = 2 => calls[k].op \notin WriteOps

\* the same statement for inventories without a hostname collision
C1_SecondPassNoWritesNoCollision ==
    (variant = "sync_logic" /\ ~HostnameCollision) =>
        \A k \in 1..Len(calls) : calls[k].pass = 2 => calls[k].op \notin WriteOps

\* C2: no delete is sent for a record whose hostname does not end with the
\* configured suffix, so such a record is never removed or modified.
C2_ScopeFencing ==
    \A k \in 1..Len(calls) :
        calls[k].op = "delete" => EndsWith(calls[k].domain, hostname_suffix)

\* C3 as claimed: during and after an upsert that found the hostname with
\* other IPs, the store never holds zero records for that hostname.
C3_NeverZeroRecords ==
    (upc \in {"delete", "add", "returned"} /\ u_copy # <<>>) =>
        RemoteIps(remote, u_domain) # {}

\* C3 as amended: the old IPs are deleted first; the add is sent only once
\* every old IP is gone from the store, and an upsert that returns true
\* leaves the new IP as the hostname's only record.
C3_DeleteBeforeAdd ==
    /\ upc = "add" => \A k \in 1..Len(u_copy) : u_copy[k] \notin RemoteIps(remote, u_domain)
    /\ (upc = "returned" /\ u_copy # <<>> /\ u_ret) => RemoteIps(remote, u_domain) = {u_ip}

\* the update path has deleted the old IP and is about to send the add
C3_Witness ==
    /\ upc = "add"
    /\ u_copy # <<>>
    /\ RemoteIps(remote, u_domain) = {}

\* C4: with an empty inventory the pass sends nothing to the Pi-hole, leaves
\* changelog, history and cache.json alone and returns normally.
C4_EmptyInventoryShortCircuit ==
    [][inventory = <<>> =>
          /\ UNCHANGED <<calls, remote, cache, changelog, history, cacheJson>>
          /\ pc' = "done"
          /\ exc' = "none"]_vars

C4_Witness ==
    /\ inventory = <<>>
    /\ pass = 1
    /\ pc = "done"
    /\ changelog # <<>>
    /\ remote # {}

\* the last request was a listing that came back as None
ListingFailed ==
    /\ calls # <<>>
    /\ calls[Len(calls)].op = "get"
    /\ ~calls[Len(calls)].ok

\* C5: a listing that returns None ends the pass without add, delete,
\* changelog line or history sample; a listing that returns an empty map
\* lets the pass go on to upsert every valid inventory record.
C5_ListingFailureAborts ==
    /\ ListingFailed =>
          /\ pc = "done"
          /\ Len(calls) = 1
          /\ changelog \in PriorChangelogs
          /\ history \in {<<>>, PriorHistory}
    /\ (pc \in {"done", "crashed"} /\ calls # <<>> /\ calls[1].ok) =>
          /\ idx > Len(inventory)
          /\ successful_syncs + failed_syncs =
                Cardinality({k \in 1..Len(inventory) : ValidClient(inventory[k])})

\* the two halves of C5 for sync_pihole_dns alone
C5_SyncLogicOnly == variant = "sync_logic" => C5_ListingFailureAborts

\* C6: a failed upsert never ends the client loop: the loop is left only
\* after the last client, and only for the stale sweep.
C6_LoopSurvivesFailures ==
    [][(pc = "loop" /\ pc' # "loop") => (pc' = "sweep" /\ idx > Len(inventory))]_vars

\* C6 for sync_pihole_dns alone
C6_SyncLogicOnly ==
    [][(variant = "sync_logic" /\ pc = "loop" /\ pc' # "loop")
          => (pc' = "sweep" /\ idx > Len(inventory))]_vars

\* C7: whenever upsert or remove has returned, the cache and the store hold
\* the same IPs for the hostname operated on.
C7_CacheMatchesStore ==
    upc \in {"returned", "removed"} => CacheIps(cache, u_domain) = RemoteIps(remote, u_domain)

\* an upsert that deleted the old IP and then failed to add the new one
C7_Witness ==
    /\ upc = "returned"
    /\ ~u_ret
    /\ u_copy # <<>>
    /\ calls # <<>>
    /\ calls[Len(calls)].op = "add"
    /\ u_domain \notin DOMAIN cache

\* C8: whenever upsert(hostname, ip) returns true the cache maps the
\* hostname to the single IP ip.
C8_OneIpAfterUpsert ==
    (upc = "returned" /\ u_ret) => (u_domain \in DOMAIN cache /\ cache[u_domain] = <<u_ip>>)

\* C9: an upsert of a pair the cache already holds returns true at once,
\* sends no request and leaves cache and store unchanged.
C9_ExistingPairNoOp ==
    [][(/\ pc = "client"
        /\ ncalls' = ncalls + 1
        /\ upc' # "removed"
        /\ u_domain' \in DOMAIN cache
        /\ InList(cache[u_domain'], u_ip'))
          => (/\ upc' = "returned"
              /\ u_ret' = TRUE
              /\ UNCHANGED <<calls, cache, remote>>)]_vars

C9_Witness ==
    /\ pc = "client"
    /\ ncalls = 1
    /\ upc = "returned"
    /\ u_ret
    /\ calls = <<>>
    /\ u_ip \in CacheIps(cache, u_domain)

\* C10: a request answered 403 is followed by exactly one re-authentication
\* and exactly one retry.
C10_SessionRecovery ==
    lastReq.status = 403 => (lastReq.auths = 1 /\ lastReq.attempts = 2)

\* C11: at most one pass is in flight against the Pi-hole at any time, also
\* when a forced sync is requested while another pass is still running.
C11_MutualExclusion == Cardinality(InFlight) <= 1

\* C11 for main() of meraki_pihole_sync.py, the target app.py imports
C11_MainOnly == variant = "main" => C11_MutualExclusion

\* the hostnames the client loop derives from the named inventory records, as
\* the Pi-hole client stores them
DerivedHostnames ==
    {Lower(Strip(DomainToSync(inventory[k]))) :
        k \in {j \in 1..Len(inventory) : inventory[j].name # <<>>}}

\* the step is a remove call of the stale sweep
SweepRemoves == pc = "sweep" /\ Len(calls') = Len(calls) + 1

\* C12: the stale sweep sends a remove only for a record whose hostname is
\* derived from no inventory record and whose IP is the IP of no inventory
\* record.
C12_SweepSparesLiveRecords ==
    [][SweepRemoves =>
          /\ calls'[Len(calls')].domain \notin DerivedHostnames
          /\ calls'[Len(calls')].ip \notin meraki_clients_by_ip]_vars

\* C12 for inventories none of whose sanitized names contains the suffix
C12_NoSuffixInNames ==
    [][(SweepRemoves /\ \A n \in meraki_clients_by_name : RemoveAll(n, hostname_suffix) = n) =>
          /\ calls'[Len(calls')].domain \notin DerivedHostnames
          /\ calls'[Len(calls')].ip \notin meraki_clients_by_ip]_vars

\* the hostnames whose upsert returned true in the current pass
Processed ==
    {Lower(Strip(upserts[k].domain)) :
        k \in {j \in 1..Len(upserts) : upserts[j].pass = pass /\ upserts[j].ret = "true"}}

\* C13: when the sweep visits a record that carries the suffix, whose
\* hostname was not successfully upserted in this pass and whose IP belongs to
\* no inventory record, it sends a remove for that record.
C13_SweepKeyedOnProcessed ==
    [][\A item \in sweepTodo \ sweepTodo' :
          (/\ pc = "sweep"
           /\ EndsWith(item.domain, hostname_suffix)
           /\ item.domain \notin Processed
           /\ item.ip \notin meraki_clients_by_ip)
             => (/\ Len(calls') = Len(calls) + 1
                 /\ calls'[Len(calls')].op = "delete"
                 /\ calls'[Len(calls')].domain = item.domain
                 /\ calls'[Len(calls')].ip = item.ip)]_vars

\* every record of the inventory has a name the client loop accepts
AllNamesValid ==
    \A k \in 1..Len(inventory) :
        inventory[k].name # <<>> /\ ~Contains(inventory[k].name, ":")

\* the store and the changelog that mirror the inventory record by record
MirrorsInventory ==
    /\ remote = {[domain |-> DomainToSync(inventory[k]), ip |-> inventory[k].ip] :
                    k \in 1..Len(inventory)}
    /\ Len(changelog) = Len(inventory)
    /\ \A k \in 1..Len(inventory) :
          Cardinality({j \in 1..Len(changelog) :
                          /\ changelog[j].action = "Mapped"
                          /\ changelog[j].domain = DomainToSync(inventory[k])
                          /\ changelog[j].ip = inventory[k].ip}) = 1

\* C14 as claimed: after one pass over valid, pairwise distinct names on an
\* empty store, the store maps exactly each derived hostname to its record's
\* IP and the changelog holds exactly one Mapped line per record.
C14_RoundTripDistinctNames ==
    (/\ pc = "done"
     /\ pass = 1
     /\ AllNamesValid
     /\ \A i, j \in 1..Len(inventory) : inventory[i].name = inventory[j].name => i = j)
        => MirrorsInventory

\* C14 as amended: the same for valid names whose derived hostnames are
\* pairwise distinct.
C14_RoundTripDistinctHostnames ==
    (/\ pc = "done"
     /\ pass = 1
     /\ AllNamesValid
     /\ \A i, j \in 1..Len(inventory) :
           DomainToSync(inventory[i]) = DomainToSync(inventory[j]) => i = j)
        => MirrorsInventory

\* a finished pass over two records with different hostnames
C14_Witness ==
    /\ pc = "done"
    /\ pass = 1
    /\ AllNamesValid
    /\ Len(inventory) = 2
    /\ DomainToSync(inventory[1]) # DomainToSync(inventory[2])
    /\ Cardinality(remote) = 2
    /\ Len(changelog) = 2

\* the name is missing, or carries ':'
Unusable(name) == name = <<>> \/ Contains(name, ":")

\* C15: no upsert call is made for a record whose name is missing or
\* contains ':', and once the loop is over every other record has had its
\* upsert call.
C15_UnusableNamesSkipped ==
    /\ \A k \in 1..Len(upserts) : ~Unusable(upserts[k].name)
    /\ (pc \in {"sweep", "done", "crashed"} /\ calls # <<>> /\ calls[1].ok) =>
          \A i \in 1..Len(inventory) :
              ~Unusable(inventory[i].name) =>
                  \E k \in 1..Len(upserts) :
                      /\ upserts[k].name = inventory[i].name
                      /\ upserts[k].ip = inventory[i].ip

\* C15 for sync_pihole_dns alone
C15_SyncLogicOnly == variant = "sync_logic" => C15_UnusableNamesSkipped

\* the characters of [a-z0-9-] on the alphabet used
LabelChars == {"a", "l", "z", "1", "2", "-"}

\* sanitize as specified: lower-case, every character outside [a-z0-9-]
\* replaced by '-'
RECURSIVE SanitizeToLabel(_)
SanitizeToLabel(name) ==
    IF name = <<>> THEN <<>>
    ELSE <<IF LowerChar(Head(name)) \in LabelChars THEN LowerChar(Head(name)) ELSE "-">>
            \o SanitizeToLabel(Tail(name))

\* C16: the hostname handed to every upsert is the sanitized name followed by
\* the suffix, the sanitized name being lower-case and made of [a-z0-9-] only.
C16_HostnameDerivation ==
    \A k \in 1..Len(upserts) :
        upserts[k].domain = SanitizeToLabel(upserts[k].name) \o hostname_suffix

\* C16 for the names made of letters, digits, '-' and spaces
C16_LettersAndSpaces ==
    \A k \in 1..Len(upserts) :
        (\A i \in 1..Len(upserts[k].name) :
            LowerChar(upserts[k].name[i]) \in LabelChars \cup {" "})
          => upserts[k].domain = SanitizeToLabel(upserts[k].name) \o hostname_suffix

\* C17: within a pass at most one upsert call is made for a hostname, however
\* many inventory records sanitize to it.
C17_HostnameSyncedOnce ==
    \A i, j \in 1..Len(upserts) :
        (/\ upserts[i].pass = upserts[j].pass
         /\ Lower(Strip(upserts[i].domain)) = Lower(Strip(upserts[j].domain)))
          => i = j

\* s is an initial segment of t
IsPrefix(s, t) == Len(s) <= Len(t) /\ SubSeq(t, 1, Len(s)) = s

\* C18: no step of a pass removes or reorders a line the changelog already
\* holds.
C18_ChangelogAppendOnly == [][IsPrefix(changelog, changelog')]_vars

\* the changelog lines of the given kind written in the current pass
LinesOfPass(action) ==
    {j \in 1..Len(changelog) : changelog[j].ts = pass /\ changelog[j].action = action}

\* the requests of the given kind that succeeded in the current pass
WritesOfPass(op) ==
    {k \in 1..Len(calls) : calls[k].pass = pass /\ calls[k].op = op /\ calls[k].ok}

\* C19: once the client loop of a pass is over, the pass has written as many
\* Mapped lines as adds succeeded, and every Removed line stands for a delete
\* that succeeded; nothing is written when no store write took place.
C19_ChangelogMatchesMutations ==
    (variant = "sync_logic" /\ pc \in {"sweep", "done"} /\ pass >= 1) =>
        /\ Cardinality(LinesOfPass("Mapped")) = Cardinality(WritesOfPass("add"))
        /\ \A j \in LinesOfPass("Removed") :
              \E k \in WritesOfPass("delete") :
                  calls[k].domain = changelog[j].domain /\ calls[k].ip = changelog[j].ip

\* C19 without the Mapped lines of upserts that found the pair in place
C19_RemovedLinesOnly ==
    (variant = "sync_logic" /\ pc \in {"sweep", "done"} /\ pass >= 1) =>
        /\ Cardinality(LinesOfPass("Mapped")) >= Cardinality(WritesOfPass("add"))
        /\ \A j \in LinesOfPass("Removed") :
              \E k \in WritesOfPass("delete") :
                  calls[k].domain = changelog[j].domain /\ calls[k].ip = changelog[j].ip

\* the last step of a pass of sync_pihole_dns that got a listing
PassCompletes == variant = "sync_logic" /\ pc = "sweep" /\ pc' = "done"

\* the inventory records with a name whose derived hostname is one of hosts
CountMapped(hosts) ==
    Cardinality({k \in 1..Len(inventory) :
                    inventory[k].name # <<>> /\ DomainToSync(inventory[k]) \in hosts})

\* the records cache holds exactly what the Pi-hole holds
SnapshotFaithful ==
    \A d \in (DOMAIN cache) \cup {r.domain : r \in remote} :
        CacheIps(cache, d) = RemoteIps(remote, d)

\* every upsert call of the current pass returned true
AllUpsertsSucceeded ==
    \A k \in 1..Len(upserts) : upserts[k].pass = pass => upserts[k].ret = "true"

\* C20: a pass that reaches its end appends exactly one sample
\* (timestamp, count), the count being the number of named inventory records
\* whose derived hostname is in the store snapshot as the pass's mutations
\* left it; no other step touches the history. The count is that of the
\* Pi-hole itself when the snapshot is faithful, and the number of records
\* when all are valid and every upsert succeeded.
C20_HistorySample ==
    [][/\ PassCompletes =>
            /\ history' = Append(history, [ts |-> pass, mapped |-> CountMapped(DOMAIN cache)])
            /\ SnapshotFaithful =>
                  CountMapped(DOMAIN cache) = CountMapped({r.domain : r \in remote})
            /\ (AllNamesValid /\ AllUpsertsSucceeded) =>
                  CountMapped(DOMAIN cache) = Len(inventory)
       /\ history' # history => PassCompletes]_vars

\* a pass over two records, both in the store at its end, has added its
\* sample to the history of an earlier run
C20_Witness ==
    /\ variant = "sync_logic"
    /\ pc = "done"
    /\ Len(inventory) = 2
    /\ Len(history) = 2
    /\ history[2] = [ts |-> 1, mapped |-> 2]
    /\ Cardinality(remote) = 2

\* C20 against the Pi-hole itself, whatever the listing was
C20_SampleCountsStore ==
    [][PassCompletes =>
          history' = Append(history, [ts |-> pass,
                                      mapped |-> CountMapped({r.domain : r \in remote})])]_vars

----------------------------------------------------------------------------
(* Properties of the inventory fetch *)

FetchOver == f_pc \in {"returned", "handed"}

\* an iteration of the per-network loop in which something raised
Failed(e) == e.raised # "none"

\* the clients of an iteration's listing the relevance test accepts
RelevantClients(e) ==
    {k \in SeqToSet(e.clients.listing) : IsRelevant(k, ReservationsOf(e.dhcp))}

\* the records a relevant client of some visited network gives rise to
RecordsOfVisited ==
    UNION {{RelevantRecord(k, queried[j].network) : k \in RelevantClients(queried[j])} :
              j \in 1..Len(queried)}

\* C21: whatever raises while one network is processed, the fetch does not
\* raise, and once it has returned, every relevant client of every network
\* that was processed without failure has a record in the returned list
C21_FailureContained ==
    /\ f_pc # "raised"
    /\ FetchOver =>
          \A i \in 1..Len(queried) :
              ~Failed(queried[i]) =>
                  \A k \in RelevantClients(queried[i]) :
                      \E r \in SeqToSet(f_result) :
                          /\ r.meraki_client_id = k.id
                          /\ r \in RecordsOfVisited

\* C21 witness: two networks, something raised in the first, and the relevant
\* client of the second is in the list returned
C21_Witness ==
    /\ FetchOver
    /\ Len(queried) = 2
    /\ Failed(queried[1])
    /\ ~Failed(queried[2])
    /\ RelevantClients(queried[2]) # {}
    /\ f_result # <<>>

\* C22: when the listing of the organisation's networks raises, no network is
\* queried, the fetch returns the empty list, and the pass it was fetched
\* for ends without a request to the Pi-hole
C22_ListingFailureFatal ==
    org_networks.error =>
        /\ FetchOver
        /\ queried = <<>>
        /\ \A i \in 1..Len(meraki_calls) : meraki_calls[i].op = "getOrganizationNetworks"
        /\ f_result = <<>>
        /\ calls = <<>>
        /\ f_pc = "handed" => pc = "done"

\* C22 witness: an allowlist is configured, the listing raised, and the pass
\* has ended
C22_Witness ==
    /\ org_networks.error
    /\ specified_network_ids # <<>>
    /\ f_pc = "handed"
    /\ pc = "done"

\* the networks a request for DHCP subnets or clients was sent for
NetworksQueried ==
    {meraki_calls[i].network :
        i \in {j \in 1..Len(meraki_calls) : meraki_calls[j].op # "getOrganizationNetworks"}}

\* the configured ids the organisation's list holds
Resolved == SeqToSet(specified_network_ids) \cap SeqToSet(org_networks.ids)

\* C23: with an allowlist configured, every network queried is in the
\* allowlist and in the organisation's list, and when no configured id is in
\* that list the fetch returns the empty list without querying a network
C23_AllowlistResolution ==
    (specified_network_ids # <<>> /\ f_pc # "idle") =>
        /\ NetworksQueried \subseteq Resolved
        /\ Resolved = {} => (FetchOver /\ queried = <<>> /\ f_result = <<>>)

\* C23, for an organisation whose list of networks is not empty
C23_ResolvedAgainstListing == org_networks.ids # <<>> => C23_AllowlistResolution

\* the fixed IP configured for a client: its DHCP reservation where the
\* network lists reservations, else the fixedIp the dashboard reports for it
FixedIpOf(k, resv) ==
    IF DOMAIN resv = {} THEN k.fixedIp
    ELSE IF Truthy(k.mac) /\ Lower(k.mac) \in DOMAIN resv THEN resv[Lower(k.mac)]
    ELSE NoneVal

\* a client with a name, a current IP, a client id and a fixed IP equal to
\* its current IP
Qualifies(k, resv) ==
    /\ Truthy(k.description) \/ Truthy(k.dhcpHostname)
    /\ Truthy(k.ip)
    /\ Truthy(k.id)
    /\ Truthy(FixedIpOf(k, resv))
    /\ FixedIpOf(k, resv) = k.ip

\* the iterations whose two requests were answered
Listed == {i \in 1..Len(queried) : queried[i].clients.kind = "ok"}

\* C24: once the fetch has returned, every record of the list was built from
\* a listed client that qualifies, and every listed client that qualifies has
\* a record (by client id) in the list
C24_RelevanceRule ==
    FetchOver =>
        /\ \A r \in SeqToSet(f_result) :
              \E i \in Listed : \E k \in SeqToSet(queried[i].clients.listing) :
                  /\ Qualifies(k, ReservationsOf(queried[i].dhcp))
                  /\ r = RelevantRecord(k, queried[i].network)
        /\ \A i \in Listed : \A k \in SeqToSet(queried[i].clients.listing) :
              Qualifies(k, ReservationsOf(queried[i].dhcp)) =>
                  \E r \in SeqToSet(f_result) : r.meraki_client_id = k.id

\* the listings in which every client with a fixedIp has a MAC address
AllWithMac ==
    \A i \in Listed : \A k \in SeqToSet(queried[i].clients.listing) :
        Truthy(k.fixedIp) => k.mac # NoneVal

\* C24, for listings in which every client with a fixedIp has a MAC address
C24_RelevanceWithMac == AllWithMac => C24_RelevanceRule

\* C25: no two records of the dict, and so of the list returned, have the
\* same client id
C25_OneRecordPerClientId ==
    /\ \A i, j \in 1..Len(all_clients_map) :
          all_clients_map[i].meraki_client_id = all_clients_map[j].meraki_client_id => i = j
    /\ \A i, j \in 1..Len(f_result) :
          f_result[i].meraki_client_id = f_result[j].meraki_client_id => i = j

\* C25 witness: the fetch has returned a list after two networks each
\* reported a relevant client under the same client id
C25_Witness ==
    /\ FetchOver
    /\ f_result # <<>>
    /\ \E i, j \in 1..Len(queried) :
          /\ i < j
          /\ ~Failed(queried[i])
          /\ ~Failed(queried[j])
          /\ \E k1 \in RelevantClients(queried[i]) : \E k2 \in RelevantClients(queried[j]) :
                k1.id = k2.id

----------------------------------------------------------------------------
(* Properties of the sync interval *)

\* the interval the three sources give, by precedence
ByPrecedence(file, env) ==
    IF file.state = "present" /\ ParseInt(file.content).ok THEN ParseInt(file.content).value
    ELSE IF env.set /\ ParseInt(env.value).ok THEN ParseInt(env.value).value
    ELSE 300

\* C28: get_sync_interval, in both modules, returns the integer of the file
\* if the file exists and holds one, else the integer of SYNC_INTERVAL_SECONDS
\* if it holds one, else 300; the value a call returned is that value
C28_IntervalPrecedence ==
    /\ get_sync_interval(interval_file, env_interval) = ByPrecedence(interval_file, env_interval)
    /\ get_sync_interval_logic(interval_file, env_interval)
           = ByPrecedence(interval_file, env_interval)
    /\ last_op = "get" => sync_interval = ByPrecedence(interval_file, env_interval)

\* C28 witness: a call returned the integer of the environment although the
\* file exists, because the file holds no integer
C28_Witness ==
    /\ last_op = "get"
    /\ interval_file.state \in {"present", "unreadable"}
    /\ ~IntOfFile(interval_file).ok
    /\ IntOfEnv(env_interval).ok
    /\ sync_interval = IntOfEnv(env_interval).value
    /\ sync_interval # 300

\* C29: while the last POST /update-interval answered 200 for the integer n,
\* the file holds n and get_sync_interval, in both modules, returns n,
\* whatever the file held before and whatever the environment holds
C29_UpdateRoundTrip ==
    http_status = 200 =>
        LET n == Coerced(request)
        IN /\ interval_file.state = "present"
           /\ ParseInt(interval_file.content) = [ok |-> TRUE, value |-> n]
           /\ get_sync_interval(interval_file, env_interval) = n
           /\ get_sync_interval_logic(interval_file, env_interval) = n
           /\ last_op = "get" => sync_interval = n

\* C29 witness: after two other operations, a call returned the negative
\* integer just posted although the environment holds another integer
C29_Witness ==
    /\ last_op = "get"
    /\ nreq = 3
    /\ http_status = 200
    /\ request.kind = "int"
    /\ request.n < 0
    /\ sync_interval = request.n
    /\ IntOfEnv(env_interval).ok
    /\ IntOfEnv(env_interval).value # request.n

\* an "interval" field that is no integer: absent, or a string that does not
\* read as one
NotAnInteger(field) == field.kind = "none" \/ (field.kind = "str" /\ ~ParseInt(field.s).ok)

\* C30: a POST /update-interval whose interval is no integer is answered with
\* an error status and leaves the interval file as it was, absent if it was
\* absent
C30_RejectedChangesNothing ==
    [][(last_op' = "post" /\ nreq' = nreq + 1 /\ NotAnInteger(request')) =>
           (http_status' >= 400 /\ interval_file' = interval_file)]_vars

\* C30 witness: a string that is no integer was posted and rejected, and the
\* file still does not exist
C30_Witness ==
    /\ last_op = "post"
    /\ request.kind = "str"
    /\ NotAnInteger(request)
    /\ http_status = 422
    /\ interval_file = Absent

----------------------------------------------------------------------------
(* Properties of the configuration check and the scheduled loop *)

\* a mandatory setting is missing, or the organisation id or the store URL
\* holds a placeholder
Misconfigured ==
    \/ \E name \in MandatoryVars(variant) : environ[name] \in {NotSet, ""}
    \/ environ.MERAKI_ORG_ID \in {"YOUR_MERAKI_ORGANIZATION_ID", "your_meraki_organization_id"}
    \/ environ.PIHOLE_API_URL \in {"your_pihole_api_url", "http://your_pihole_ip_or_hostname/admin"}

PassEnded == s_outcome # "none"

\* C26: with a configuration error the pass ends by SystemExit before any
\* call to the dashboard or the Pi-hole, and the process terminates with a
\* non-zero status instead of going on
C26_ConfigErrorTerminates ==
    (Misconfigured /\ PassEnded) =>
        /\ s_outcome = "SystemExit"
        /\ ~s_called
        /\ s_exit = "1"

\* C26, the pass alone: it ends by SystemExit before any call
C26_NoCallBeforeExit ==
    (Misconfigured /\ PassEnded) => (s_outcome = "SystemExit" /\ ~s_called)

\* C26, for the script and for a direct call: the process terminates non-zero
C26_ScriptTerminates ==
    (Misconfigured /\ PassEnded /\ s_entry \in {"script", "call"}) => s_exit = "1"

\* C27: in the loop of sync_runner, whatever the outcome of a pass, another
\* pass is always eventually started
C27_LoopKeepsStartingPasses ==
    (s_entry = "run_sync") => []<>(s_pc = "pass")

\* C27, for an interval that is not negative
C27_LoopWithValidInterval ==
    (s_entry = "run_sync" /\ get_sync_interval(interval_file, env_interval) >= 0)
        => []<>(s_pc = "pass")

----------------------------------------------------------------------------
(* Properties of POST /clear-log *)

\* a request for the sync log has just been answered
ClearedSync == last_op' = "clear" /\ nreq' = nreq + 1 /\ request' = StrField(<<"s", "y", "n", "c">>)

\* a request for another log has just been answered
ClearedOther ==
    /\ last_op' = "clear"
    /\ nreq' = nreq + 1
    /\ request'.kind = "str"
    /\ request'.s # <<"s", "y", "n", "c">>

\* C31: POST /clear-log with log = 'sync' leaves the sync log existing with
\* size 0 and answers 200; with any other log value it answers 400 and leaves
\* the sync log as it was
C31_ClearLog ==
    [][/\ ClearedSync => (http_status' = 200 /\ sync_log'.exists /\ sync_log'.size = 0)
       /\ ClearedOther => (http_status' = 400 /\ sync_log' = sync_log)]_vars

\* C31, amended: the same, for log = 'sync' when the directory of the sync log
\* exists
C31_ClearLogWithDirectory ==
    [][/\ (ClearedSync /\ sync_log.dir) =>
              (http_status' = 200 /\ sync_log'.exists /\ sync_log'.size = 0)
       /\ ClearedOther => (http_status' = 400 /\ sync_log' = sync_log)]_vars

\* C31 witness: the first request cleared the sync log
C31_Witness ==
    /\ last_op = "clear"
    /\ nreq = 1
    /\ request = StrField(<<"s", "y", "n", "c">>)
    /\ http_status = 200
    /\ sync_log = [dir |-> TRUE, exists |-> TRUE, size |-> 0]

----------------------------------------------------------------------------
(* Properties of the IP allowlist *)

Dispatched == last_op = "dispatch"

\* ALLOWED_SUBNETS is set and not empty
AllowlistOn == allowed_subnets.set /\ allowed_subnets.value # <<>>

\* the client IP of the last request: the first X-Forwarded-For entry when
\* the header is present, else the peer address
ClientIp == ip_address(ClientIpText(x_forwarded_for, peer))

\* the client IP is an address that lies in a well-formed listed subnet
InListedSubnet ==
    /\ ClientIp.ok
    /\ \E i \in 1..Len(SubnetsOf(allowed_subnets.value)) :
          /\ SubnetsOf(allowed_subnets.value)[i].ok
          /\ InSubnet(ClientIp.value, SubnetsOf(allowed_subnets.value)[i])

\* C32: with ALLOWED_SUBNETS set and not empty a request reaches the handler
\* only if its client IP lies in a listed subnet and is otherwise answered
\* 403 without the handler being called; with ALLOWED_SUBNETS unset or empty
\* every request reaches the handler
C32_IpAllowlist ==
    Dispatched =>
        /\ AllowlistOn => (handler_called => InListedSubnet)
        /\ (AllowlistOn /\ ~InListedSubnet) => (http_status = 403 /\ ~handler_called)
        /\ ~AllowlistOn => handler_called

\* C32 without the status: the handler is reached only from a listed subnet
C32_HandlerOnlyIfListed ==
    Dispatched =>
        /\ AllowlistOn => (handler_called <=> (InListedSubnet /\ http_status = 200))
        /\ ~AllowlistOn => handler_called

\* every listed subnet is a network and the client IP is an address
WellFormed ==
    /\ ClientIp.ok
    /\ \A i \in 1..Len(SubnetsOf(allowed_subnets.value)) : SubnetsOf(allowed_subnets.value)[i].ok

\* C32, for a well-formed ALLOWED_SUBNETS and a well-formed client IP
C32_WellFormedRequests == (AllowlistOn /\ WellFormed) => C32_IpAllowlist

----------------------------------------------------------------------------
(* Properties of the pass and of the upsert, continued *)

\* this step sends an add or a delete to the Pi-hole
WriteIssued == Len(calls') = Len(calls) + 1 /\ calls'[Len(calls')].op \in WriteOps

\* the listing of the current pass has returned a map
ListedThisPass == \E i \in 1..Len(calls) : calls[i].op = "get" /\ calls[i].pass = pass /\ calls[i].ok

\* C33: a pass sends an add or a delete only after its inventory is there and
\* its listing has returned a map, upserts are sent by the client loop only,
\* removals of stale records only once every client of the loop has been
\* handled, and the loop is never resumed after the sweep has begun
C33_PhaseOrdering ==
    [][/\ WriteIssued =>
              /\ pass >= 1
              /\ ListedThisPass
              /\ pc \in {"loop", "sweep"}
              /\ pc = "sweep" => (idx > Len(inventory) /\ upc = "none")
       /\ pc = "sweep" => pc' \in {"sweep", "done"}]_vars

\* C33 witness: a pass has ended in which an upsert added a record and the
\* sweep removed another
C33_Witness ==
    /\ variant = "sync_logic"
    /\ pc = "done"
    /\ LinesOfPass("Mapped") # {}
    /\ LinesOfPass("Removed") # {}

\* C34: a delete of an old IP that is not confirmed ends the upsert: it
\* returns false at once, the cache is left as it was and still holds that
\* IP for the hostname, and while the upsert stays returned no request is
\* sent.
C34_FailedDeleteHalts ==
    [][/\ (upc = "delete" /\ Len(calls') = Len(calls) + 1 /\ ~calls'[Len(calls')].ok)
           => /\ upc' = "returned"
              /\ u_ret' = FALSE
              /\ calls'[Len(calls')].op = "delete"
              /\ calls'[Len(calls')].domain = u_domain
              /\ cache' = cache
              /\ u_domain \in DOMAIN cache
              /\ InList(cache[u_domain], calls'[Len(calls')].ip)
       /\ (upc = "returned" /\ upc' = "returned") => calls' = calls]_vars

\* the old IP of a hostname could not be deleted: the upsert has returned
\* false without sending the add, and the cache keeps that IP
C34_Witness ==
    /\ upc = "returned"
    /\ ~u_ret
    /\ u_copy # <<>>
    /\ calls # <<>>
    /\ calls[Len(calls)].op = "delete" /\ ~calls[Len(calls)].ok
    /\ calls[Len(calls)].domain = u_domain
    /\ u_domain \in DOMAIN cache
    /\ InList(cache[u_domain], calls[Len(calls)].ip)
    /\ [domain |-> u_domain, ip |-> calls[Len(calls)].ip] \in remote

\* the hostnames of the named clients of the inventory, folded to lower case
ClientHostnames ==
    {Lower(DomainToSync(inventory[k])) : k \in {j \in 1..Len(inventory) : inventory[j].name # <<>>}}

\* C35: hostnames are compared without regard to letter case, the configured
\* suffix included: the listing keys the cache by lower-case hostnames, and
\* the sweep never removes a record whose hostname is, letter case aside,
\* the hostname of a named client of the inventory.
C35_CaseInsensitiveHostnames ==
    [][/\ \A d \in DOMAIN cache' : d = Lower(d)
       /\ (pc = "sweep" /\ WriteIssued)
             => Lower(calls'[Len(calls')].domain) \notin ClientHostnames]_vars

\* C37: an upsert that returns false has changed nothing in the store: the
\* IPs the store holds for the hostname are those it held when the upsert
\* was called (the copy of the cache entry taken at line 170, which is the
\* store's content at that moment).
C37_FailedUpsertNoRemoteChange ==
    [][/\ (ncalls' = ncalls + 1 /\ upc' \in {"delete", "add"})
             => SeqToSet(u_copy') = RemoteIps(remote', u_domain')
       /\ (upc \in {"delete", "add"} /\ upc' = "returned" /\ ~u_ret')
             => RemoteIps(remote', u_domain) = SeqToSet(u_copy)]_vars

\* the thread was started with update_type "meraki"
MerakiUpdate == threads # <<>> /\ threads[1].update_type = "meraki"

\* C38: a pass started with update_type "meraki" gets as far as the
\* inventory and returns normally, without a request to the Pi-hole and
\* without writing to the changelog, the history or cache.json.
C38_MerakiUpdateFetchesOnly ==
    [][MerakiUpdate =>
          /\ UNCHANGED <<calls, remote, cache, changelog, history, cacheJson>>
          /\ threads'[1].at = "returned"
          /\ pc' = "done"
          /\ exc' = "none"]_vars

\* C38 without the fetch: no step of a "meraki" thread sends a request or
\* writes a file
C38_NoStoreCall ==
    [][MerakiUpdate => UNCHANGED <<calls, remote, cache, changelog, history, cacheJson>>]_vars

\* C38 for sync_pihole_dns as the thread's target
C38_SyncLogicOnly ==
    [][(MerakiUpdate /\ variant = "sync_logic") =>
          /\ UNCHANGED <<calls, remote, cache, changelog, history, cacheJson>>
          /\ threads'[1].at = "returned"
          /\ pc' = "done"
          /\ exc' = "none"]_vars

\* C39: the interval get_sync_interval hands to the scheduler's sleep is
\* never negative, whatever was posted to /update-interval and accepted and
\* whatever the environment holds.
C39_IntervalNonNegative == last_op = "get" => sync_interval >= 0

\* C39 in the loop of sync_runner: the sleep is never reached with a
\* negative interval, so it never ends the loop
C39_SleepNeverRaises == (s_entry = "run_sync" /\ s_pc = "sleep") => sync_interval >= 0

\* a client the relevance rule accepts when it is looked at on its own: it
\* qualifies, and it has a MAC address if it has a fixedIp
RelevantAlone(k, resv) == Qualifies(k, resv) /\ (Truthy(k.fixedIp) => k.mac # NoneVal)

\* C40: the clients of a listing are judged one by one: once the fetch has
\* returned, every listed client that is relevant on its own has a record in
\* the list, whatever the clients listed with it look like.
C40_ClientsJudgedIndependently ==
    FetchOver =>
        \A i \in Listed : \A k \in SeqToSet(queried[i].clients.listing) :
            RelevantAlone(k, ReservationsOf(queried[i].dhcp)) =>
                \E r \in SeqToSet(f_result) : r.meraki_client_id = k.id

\* C40, for the clients listed before anything raises in their network
C40_UntilFirstFailure ==
    FetchOver =>
        \A i \in Listed : ~Failed(queried[i]) =>
            \A k \in SeqToSet(queried[i].clients.listing) :
                RelevantAlone(k, ReservationsOf(queried[i].dhcp)) =>
                    \E r \in SeqToSet(f_result) : r.meraki_client_id = k.id

----------------------------------------------------------------------------
(* Properties of the store listing *)

\* the last listing request failed: it got an error status
RequestFailed == l_response.status # 200

\* C36: whatever the answer of the listing request, the listing returns a
\* map or None and never raises, and it returns None only when the request
\* failed.
C36_ListingTolerant ==
    l_result # "none" =>
        /\ l_result \in {"map", "None"}
        /\ exc = "none"
        /\ l_result = "None" => RequestFailed

\* C36 for the answers the code does handle: a dictionary with or without a
\* "data" list of string pairs and other items, an empty or non-JSON body,
\* and a failed request
C36_DictionaryAnswers ==
    (/\ l_result # "none"
     /\ l_response.shape \in {"data_list", "data_missing", "data_not_list", "empty_body", "not_json"}
     /\ \A k \in 1..Len(l_response.items) : l_response.items[k].shape # "numbers")
        => /\ l_result = (IF RequestFailed THEN "None" ELSE "map")
           /\ exc = "none"

====
